---------------------------- MODULE Spec2Model ----------------------------
(***************************************************************************)
(* Model of the SlashID agent CDK construct (src/lib/slashid-agent.ts),    *)
(* its VPC peering helper (src/lib/vpc-peering.ts) and credentials         *)
(* helper (src/lib/credentials.ts).                                        *)
(*                                                                         *)
(* State is the private state of one SlashidAgent instance (`agent`), a    *)
(* second instance `twin` that under SpecPair receives the same call       *)
(* sequence with secrets of the same name/ARN but different contents (and  *)
(* is left untouched under Spec), and the sequence of public calls made    *)
(* so far (`history`).  `slashidAgentStack` is one                         *)
(* instance of the SlashidAgentStack class (slashid-agent-stack.ts), which *)
(* has its own addPostgres, and `stackHistory` the calls made on it.       *)
(* `artifacts` is the sequence of renderings of the environment file and   *)
(* the start script made so far (SpecRender).                              *)
(*                                                                         *)
(* Strings are TLA+ strings built with \o exactly as the template literals *)
(* of the source build them; optional values (`x?: T`) are sequences of    *)
(* length at most one (<<>> is undefined).                                 *)
(***************************************************************************)
EXTENDS Naturals, Integers, Sequences, FiniteSets, TLC

VARIABLES agent, twin, history, slashidAgentStack, stackHistory, artifacts

vars == <<agent, twin, history, slashidAgentStack, stackHistory, artifacts>>

\* Bound on the number of public calls made on one instance.
MaxCalls == 3

\* Bound on the number of public calls made on a pair of instances that
\* receive the same calls.
MaxPairCalls == 3

\* Bound on the number of addPostgres calls made on one SlashidAgentStack.
MaxStackCalls == 3

\* Bounds on the number of public calls and of renderings when renderings
\* are interleaved with the calls.
MaxRenderCalls == 2

MaxRenders == 2

---------------------------------------------------------------------------
(* Optional values and small helpers                                        *)

None == <<>>

Some(v) == <<v>>

\* boolean.toString()
BoolToString(b) == IF b THEN "true" ELSE "false"

\* StringOrSecret (credentials.ts): string | ISecret | { secret, field }
Str(s) == [type |-> "string", string |-> s]

WholeSecret(sec) == [type |-> "secret", secret |-> sec]

SecretField(sec, f) == [type |-> "field", secret |-> sec, field |-> f]

Range(s) == {s[i] : i \in 1..Len(s)}

---------------------------------------------------------------------------
(* Collaborators: secrets, VPCs, databases, directories                     *)

DEFAULT_UPLOAD_URL == "https://api.slashid.com/nhi/snapshots"

DEFAULT_STREAM_URL == "https://api.slashid.com/nhi/events"

Region == "eu-west-1"

\* An ISecret as seen in run `run` (1 = agent, 2 = twin): the name and the
\* ARN are the same in both runs, the contents (secretString) differ.
Secret(run, id) ==
    [secretName   |-> "name/" \o id,
     secretArn    |-> "arn:aws:secretsmanager:" \o id,
     secretString |-> "contents-" \o ToString(run) \o "-of-" \o id]

\* An IVpc: id, address range, route tables of its public / private subnets.
\* In VpcA two public subnets share one route table.
VpcA == [vpcId |-> "vpc-a", vpcCidrBlock |-> "10.0.0.0/16",
         publicSubnets |-> <<"rtb-pub", "rtb-pub">>,
         privateSubnets |-> <<"rtb-priv1", "rtb-priv2">>]

VpcB == [vpcId |-> "vpc-b", vpcCidrBlock |-> "10.1.0.0/16",
         publicSubnets |-> <<"rtb-b">>, privateSubnets |-> <<>>]

VpcC == [vpcId |-> "vpc-c", vpcCidrBlock |-> "10.2.0.0/16",
         publicSubnets |-> <<"rtb-c">>, privateSubnets |-> <<>>]

Vpcs == <<VpcA, VpcB, VpcC>>

\* The stack the agent construct lives in.
AgentStack == "SlashidAgentStack"

\* RdsDatabase (slashid-agent.ts:442): DatabaseInstance | DatabaseCluster |
\* ServerlessCluster with vpc and optional secret.  `clusterEndpoint` is
\* None for an instance.
Rds(id, stack, vpc, engine, cluster, inst, secret) ==
    [type |-> "rds", id |-> id, stack |-> stack, vpc |-> vpc, engine |-> engine,
     clusterEndpoint |-> cluster, instanceEndpoint |-> inst, secret |-> secret]

Endpoint(h, p) == [hostname |-> h, port |-> p]

\* credentialFromSecret with the two field names exchanged.
credentialFromSecretSwapped(secret, usernameField, passwordField) ==
    [username |-> SecretField(secret, passwordField),
     password |-> SecretField(secret, usernameField)]

\* credentialFromSecret (credentials.ts / unnamed/part_003:17-22)
credentialFromSecret(secret, usernameField, passwordField) ==
    [username |-> SecretField(secret, usernameField),
     password |-> SecretField(secret, passwordField)]

\* The databases a call may name, as seen in run `run`.
Databases(run) == <<
    \* 1: RDS instance, PostgreSQL, agent's own VPC and stack, owns a secret
    Rds("db1", AgentStack, VpcA, Some([engineType |-> "postgres"]), None,
        Some(Endpoint("db1.rds.local", 5432)), Some(Secret(run, "db1"))),
    \* 2: Aurora PostgreSQL cluster, foreign VPC, other stack, owns a secret
    Rds("db2", "PostgresStack", VpcB, Some([engineType |-> "aurora-postgresql"]),
        Some(Endpoint("db2.cluster.local", 5433)),
        Some(Endpoint("db2.instance.local", 5439)), Some(Secret(run, "db2"))),
    \* 3: RDS instance, MySQL engine, foreign VPC, owns a secret
    Rds("db3", "MysqlStack", VpcC, Some([engineType |-> "mysql"]), None,
        Some(Endpoint("db3.rds.local", 3306)), Some(Secret(run, "db3"))),
    \* 4: RDS instance, PostgreSQL, foreign VPC, no secret
    Rds("db4", "PostgresStack", VpcC, Some([engineType |-> "postgres"]), None,
        Some(Endpoint("db4.rds.local", 5432)), None),
    \* 5: PostgresDatabaseInfo with literal credentials
    [type |-> "info", host |-> "pg.example.com", port |-> 5432,
     dbname |-> Str("appdb"),
     credential |-> [username |-> Str("admin"), password |-> Str("hunter2")],
     use_ssl |-> FALSE] >>

\* PostgresAgentConfig (slashid-agent.ts:427-439)
PostgresConfigs(run) == <<
    [slashid_auth_token |-> Str("tok-literal"), upload_url |-> None,
     upload_interval |-> None, max_consecutive_failures |-> None,
     max_backoff_interval |-> None, fetch_passwords |-> None],
    [slashid_auth_token |-> WholeSecret(Secret(run, "token")),
     upload_url |-> Some("https://upload.example.com"),
     upload_interval |-> Some(60), max_consecutive_failures |-> Some(5),
     max_backoff_interval |-> Some(900), fetch_passwords |-> Some(TRUE)] >>

\* ActiveDirectoryInfo / CfnMicrosoftAD (slashid-agent.ts:457-466)
Directories == <<
    \* 1: AWS Managed Microsoft AD
    [type |-> "CfnMicrosoftAD", name |-> "corp.example.com",
     attrDnsIpAddresses |-> "GetAtt(ManagedAD.DnsIpAddresses)"],
    \* 2: self-managed directory, one controller (LDAPS), no DNS server
    [type |-> "info", domain |-> "lab.example.com",
     domainControllers |-> << [host |-> "dc1.lab.example.com", port |-> 636,
                               use_ssl |-> TRUE] >>,
     dnsServers |-> <<>>],
    \* 3: self-managed directory with an empty controller list
    [type |-> "info", domain |-> "empty.example.com",
     domainControllers |-> <<>>, dnsServers |-> <<"10.9.9.9">>] >>

\* ActiveDirectoryAgentConfig (slashid-agent.ts:468-505)
SnapshotConfig(run) ==
    [slashid_auth_token |-> WholeSecret(Secret(run, "adtoken")),
     upload_url |-> None, upload_interval |-> Some(3600),
     max_consecutive_failures |-> None, max_backoff_interval |-> None,
     credential |-> credentialFromSecret(Secret(run, "svc"), "username", "password"),
     collect_adcs |-> Some(FALSE), collection_method |-> Some("DCOnly")]

WmiDefaults ==
    [namespace |-> None, hashes |-> None, kerberos_auth |-> None, aes_key |-> None,
     rpc_auth_level |-> None, timeout |-> None, events_pull_interval |-> None,
     max_events_per_pull |-> None, stream_url |-> None,
     connection_error_delay |-> None]

\* a WMI collector that uses the same credential as the snapshot collector
WmiConfigShared(run) ==
    [slashid_auth_token |-> WholeSecret(Secret(run, "adtoken")),
     credential |-> credentialFromSecret(Secret(run, "svc"), "username", "password")]
        @@ WmiDefaults

\* a WMI collector with literal user name and every optional field set
WmiConfigFull(run) ==
    [slashid_auth_token |-> Str("wmi-token"),
     credential |-> [username |-> Str("wmi-user"),
                     password |-> SecretField(Secret(run, "wmi"), "password")],
     namespace |-> Some("//./root/cimv2"), hashes |-> Some(":"),
     kerberos_auth |-> Some(TRUE), aes_key |-> Some(WholeSecret(Secret(run, "aes"))),
     rpc_auth_level |-> Some("privacy"), timeout |-> Some(300),
     events_pull_interval |-> Some(30), max_events_per_pull |-> Some(300),
     stream_url |-> Some("https://stream.example.com"),
     connection_error_delay |-> Some(180)]

DirectoryConfigs(run) == <<
    [snapshot |-> None, wmi |-> None],
    [snapshot |-> Some(SnapshotConfig(run)), wmi |-> None],
    [snapshot |-> None, wmi |-> Some(WmiConfigFull(run))],
    [snapshot |-> Some(SnapshotConfig(run)), wmi |-> Some(WmiConfigShared(run))] >>

---------------------------------------------------------------------------
(* The agent's state and its private methods                                *)

\* uuidv5 of the construct path (slashid-agent.ts:77): a deterministic
\* function of account, region and path.
agentInstanceId(account, region, path) ==
    "uuidv5(slashid-agent-cdk/" \o account \o "/" \o region \o "/" \o path \o ")"

\* this.containerEnv[name] = value with a new key put in front of the others.
EnvSetInFront(env, name, value) ==
    IF \E i \in 1..Len(env) : env[i].name = name
    THEN [i \in 1..Len(env) |->
            IF env[i].name = name THEN [name |-> name, value |-> value] ELSE env[i]]
    ELSE <<[name |-> name, value |-> value]>> \o env

\* this.containerEnv[name] = value on a JS object: an existing key keeps its
\* position and gets the new value, a new key is appended.
EnvSet(env, name, value) ==
    IF \E i \in 1..Len(env) : env[i].name = name
    THEN [i \in 1..Len(env) |->
            IF env[i].name = name THEN [name |-> name, value |-> value] ELSE env[i]]
    ELSE Append(env, [name |-> name, value |-> value])

EnvHas(env, name) == \E i \in 1..Len(env) : env[i].name = name

EnvGet(env, name) == (CHOOSE i \in 1..Len(env) : env[i].name = name)

\* A thrown Error leaves the state as mutated so far.
Throw(this, msg) == [this |-> this, threw |-> Some(msg)]

Return(this) == [this |-> this, threw |-> None]

\* slashid-agent.ts:196-200, with a single counter shared by all kinds.
createEnvPrefixShared(this, prefix) ==
    LET count == IF "" \in DOMAIN this.envPrefixCounts
                 THEN this.envPrefixCounts[""] ELSE 0
        ret == prefix \o "_" \o ToString(count + 1) \o "_"
    IN  [this |-> [this EXCEPT !.envPrefixCounts = ("" :> (count + 1)) @@ @,
                               !.allocated = Append(@, [kind |-> prefix, ret |-> ret])],
         ret  |-> ret]

\* slashid-agent.ts:196-200 leaving the kind out of the returned string.
createEnvPrefixNoKind(this, prefix) ==
    LET count == IF prefix \in DOMAIN this.envPrefixCounts
                 THEN this.envPrefixCounts[prefix] ELSE 0
        ret == "ENV_" \o ToString(count + 1) \o "_"
    IN  [this |-> [this EXCEPT !.envPrefixCounts = (prefix :> (count + 1)) @@ @,
                               !.allocated = Append(@, [kind |-> prefix, ret |-> ret])],
         ret  |-> ret]

\* slashid-agent.ts:196-200 without the envPrefixCounts.set of line 198.
createEnvPrefixNoStore(this, prefix) ==
    LET count == IF prefix \in DOMAIN this.envPrefixCounts
                 THEN this.envPrefixCounts[prefix] ELSE 0
        ret == prefix \o "_" \o ToString(count + 1) \o "_"
    IN  [this |-> [this EXCEPT !.allocated = Append(@, [kind |-> prefix, ret |-> ret])],
         ret  |-> ret]

\* slashid-agent.ts:196-200.  `allocated` records the prefixes returned.
createEnvPrefix(this, prefix) ==
    LET count == IF prefix \in DOMAIN this.envPrefixCounts
                 THEN this.envPrefixCounts[prefix] ELSE 0
        ret == prefix \o "_" \o ToString(count + 1) \o "_"
    IN  [this |-> [this EXCEPT !.envPrefixCounts = (prefix :> (count + 1)) @@ @,
                               !.allocated = Append(@, [kind |-> prefix, ret |-> ret])],
         ret  |-> ret]

\* The get-secret-value command line of slashid-agent.ts:218
fetchCmd(secret, region) ==
    "aws secretsmanager get-secret-value --secret-id " \o secret.secretArn
        \o " --query SecretString --output text --region " \o region

\* slashid-agent.ts:208-232 storing the secret's value instead of a placeholder.
addEnvLeaksValue(this, name, value) ==
    LET logged == [this EXCEPT !.trace = Append(@, [name |-> name, value |-> value])]
    IN
    IF value.type = "string"
    THEN [logged EXCEPT !.containerEnv = EnvSet(@, name, value.string)]
    ELSE LET isSecretRef == value.type = "field"
             secret == value.secret
             field  == IF isSecretRef THEN Some(value.field) ELSE None
             cmd    == fetchCmd(secret, this.region)
         IN  IF field # None /\ field[1] # ""
             THEN [logged EXCEPT
                     !.granted = @ \cup {secret.secretArn},
                     !.containerEnv = EnvSet(@, name,
                         secret.secretString),
                     !.fetchSecretsCommands = Append(@,
                         "echo \"" \o name \o "=$(" \o cmd \o " | jq -r '." \o field[1]
                             \o "')\" >> /run/slashid-agent-secrets.env")]
             ELSE [logged EXCEPT
                     !.granted = @ \cup {secret.secretArn},
                     !.containerEnv = EnvSet(@, name,
                         secret.secretString),
                     !.fetchSecretsCommands = Append(@,
                         "echo \"" \o name \o "=$(" \o cmd
                             \o ")\" >> /run/slashid-agent-secrets.env")]

\* slashid-agent.ts:208-232 storing a plain string in double quotes.
addEnvQuotesLiteral(this, name, value) ==
    LET logged == [this EXCEPT !.trace = Append(@, [name |-> name, value |-> value])]
    IN
    IF value.type = "string"
    THEN [logged EXCEPT !.containerEnv = EnvSet(@, name, "\"" \o value.string \o "\"")]
    ELSE LET isSecretRef == value.type = "field"
             secret == value.secret
             field  == IF isSecretRef THEN Some(value.field) ELSE None
             cmd    == fetchCmd(secret, this.region)
         IN  IF field # None /\ field[1] # ""
             THEN [logged EXCEPT
                     !.granted = @ \cup {secret.secretArn},
                     !.containerEnv = EnvSet(@, name,
                         "secret(" \o secret.secretName \o ")." \o field[1]),
                     !.fetchSecretsCommands = Append(@,
                         "echo \"" \o name \o "=$(" \o cmd \o " | jq -r '." \o field[1]
                             \o "')\" >> /run/slashid-agent-secrets.env")]
             ELSE [logged EXCEPT
                     !.granted = @ \cup {secret.secretArn},
                     !.containerEnv = EnvSet(@, name,
                         "secret(" \o secret.secretName \o ")"),
                     !.fetchSecretsCommands = Append(@,
                         "echo \"" \o name \o "=$(" \o cmd
                             \o ")\" >> /run/slashid-agent-secrets.env")]

\* slashid-agent.ts:208-232 without the secret.grantRead(this.role) of line 216.
addEnvNoGrant(this, name, value) ==
    LET logged == [this EXCEPT !.trace = Append(@, [name |-> name, value |-> value])]
    IN
    IF value.type = "string"
    THEN [logged EXCEPT !.containerEnv = EnvSet(@, name, value.string)]
    ELSE LET isSecretRef == value.type = "field"
             secret == value.secret
             field  == IF isSecretRef THEN Some(value.field) ELSE None
             cmd    == fetchCmd(secret, this.region)
         IN  IF field # None /\ field[1] # ""
             THEN [logged EXCEPT
                     !.containerEnv = EnvSet(@, name,
                         "secret(" \o secret.secretName \o ")." \o field[1]),
                     !.fetchSecretsCommands = Append(@,
                         "echo \"" \o name \o "=$(" \o cmd \o " | jq -r '." \o field[1]
                             \o "')\" >> /run/slashid-agent-secrets.env")]
             ELSE [logged EXCEPT
                     !.containerEnv = EnvSet(@, name,
                         "secret(" \o secret.secretName \o ")"),
                     !.fetchSecretsCommands = Append(@,
                         "echo \"" \o name \o "=$(" \o cmd
                             \o ")\" >> /run/slashid-agent-secrets.env")]

\* slashid-agent.ts:208-232 with the variable name in the placeholder.
addEnvNamedPlaceholder(this, name, value) ==
    LET logged == [this EXCEPT !.trace = Append(@, [name |-> name, value |-> value])]
    IN
    IF value.type = "string"
    THEN [logged EXCEPT !.containerEnv = EnvSet(@, name, value.string)]
    ELSE LET isSecretRef == value.type = "field"
             secret == value.secret
             field  == IF isSecretRef THEN Some(value.field) ELSE None
             cmd    == fetchCmd(secret, this.region)
         IN  IF field # None /\ field[1] # ""
             THEN [logged EXCEPT
                     !.granted = @ \cup {secret.secretArn},
                     !.containerEnv = EnvSet(@, name,
                         "secret(" \o name \o ")." \o field[1]),
                     !.fetchSecretsCommands = Append(@,
                         "echo \"" \o name \o "=$(" \o cmd \o " | jq -r '." \o field[1]
                             \o "')\" >> /run/slashid-agent-secrets.env")]
             ELSE [logged EXCEPT
                     !.granted = @ \cup {secret.secretArn},
                     !.containerEnv = EnvSet(@, name,
                         "secret(" \o name \o ")"),
                     !.fetchSecretsCommands = Append(@,
                         "echo \"" \o name \o "=$(" \o cmd
                             \o ")\" >> /run/slashid-agent-secrets.env")]

\* slashid-agent.ts:208-232 pushing the fetch command of a field reference
\* twice.
addEnvFetchesTwice(this, name, value) ==
    LET logged == [this EXCEPT !.trace = Append(@, [name |-> name, value |-> value])]
    IN
    IF value.type = "string"
    THEN [logged EXCEPT !.containerEnv = EnvSet(@, name, value.string)]
    ELSE LET isSecretRef == value.type = "field"
             secret == value.secret
             field  == IF isSecretRef THEN Some(value.field) ELSE None
             cmd    == fetchCmd(secret, this.region)
             line   == "echo \"" \o name \o "=$(" \o cmd \o " | jq -r '." \o field[1]
                           \o "')\" >> /run/slashid-agent-secrets.env"
         IN  IF field # None /\ field[1] # ""
             THEN [logged EXCEPT
                     !.granted = @ \cup {secret.secretArn},
                     !.containerEnv = EnvSet(@, name,
                         "secret(" \o secret.secretName \o ")." \o field[1]),
                     !.fetchSecretsCommands = @ \o <<line, line>>]
             ELSE [logged EXCEPT
                     !.granted = @ \cup {secret.secretArn},
                     !.containerEnv = EnvSet(@, name,
                         "secret(" \o secret.secretName \o ")"),
                     !.fetchSecretsCommands = Append(@,
                         "echo \"" \o name \o "=$(" \o cmd
                             \o ")\" >> /run/slashid-agent-secrets.env")]

\* slashid-agent.ts:208-232.  `trace` records the calls made (name, value),
\* `granted` the secrets on which grantRead(this.role) was called.
addEnv(this, name, value) ==
    LET logged == [this EXCEPT !.trace = Append(@, [name |-> name, value |-> value])]
    IN
    IF value.type = "string"
    THEN [logged EXCEPT !.containerEnv = EnvSet(@, name, value.string)]
    ELSE LET isSecretRef == value.type = "field"
             secret == value.secret
             field  == IF isSecretRef THEN Some(value.field) ELSE None
             cmd    == fetchCmd(secret, this.region)
         IN  IF field # None /\ field[1] # ""
             THEN [logged EXCEPT
                     !.granted = @ \cup {secret.secretArn},
                     !.containerEnv = EnvSet(@, name,
                         "secret(" \o secret.secretName \o ")." \o field[1]),
                     !.fetchSecretsCommands = Append(@,
                         "echo \"" \o name \o "=$(" \o cmd \o " | jq -r '." \o field[1]
                             \o "')\" >> /run/slashid-agent-secrets.env")]
             ELSE [logged EXCEPT
                     !.granted = @ \cup {secret.secretArn},
                     !.containerEnv = EnvSet(@, name,
                         "secret(" \o secret.secretName \o ")"),
                     !.fetchSecretsCommands = Append(@,
                         "echo \"" \o name \o "=$(" \o cmd
                             \o ")\" >> /run/slashid-agent-secrets.env")]

\* A run of consecutive this.addEnv(name, value) statements.
RECURSIVE addEnvs(_, _)
addEnvs(this, calls) ==
    IF calls = <<>> THEN this
    ELSE addEnvs(addEnv(this, calls[1][1], calls[1][2]), Tail(calls))

\* `if (cond) this.addEnv(name, value)`
When(cond, name, value) == IF cond THEN << <<name, value>> >> ELSE <<>>

\* slashid-agent.ts:234-247 without the `?? DEFAULT_UPLOAD_URL` of line 236:
\* UPLOAD_URL is written only when the caller gave one.
setUploadConfigNoDefault(this, envPrefix, config) ==
    addEnvs(this,
        << <<envPrefix \o "SLASHID_AUTH_TOKEN", config.slashid_auth_token>> >>
        \o When(config.upload_url # None, envPrefix \o "UPLOAD_URL",
                Str(config.upload_url[1]))
        \o When(config.upload_interval # None, envPrefix \o "UPLOAD_INTERVAL",
                Str(ToString(config.upload_interval[1])))
        \o When(config.max_consecutive_failures # None,
                envPrefix \o "MAX_CONSECUTIVE_FAILURES",
                Str(ToString(config.max_consecutive_failures[1])))
        \o When(config.max_backoff_interval # None,
                envPrefix \o "MAX_BACKOFF_INTERVAL",
                Str(ToString(config.max_backoff_interval[1])))
        \o << <<envPrefix \o "OUTPUT_DIR",
                Str("/tmp/slashid-agent/" \o envPrefix \o "OUTPUT")>> >>)

\* slashid-agent.ts:234-247 with OUTPUT_DIR given the token's value instead
\* of the literal directory of line 246.
setUploadConfigSecretDir(this, envPrefix, config) ==
    addEnvs(this,
        << <<envPrefix \o "SLASHID_AUTH_TOKEN", config.slashid_auth_token>>,
           <<envPrefix \o "UPLOAD_URL",
             Str(IF config.upload_url # None THEN config.upload_url[1]
                 ELSE DEFAULT_UPLOAD_URL)>> >>
        \o When(config.upload_interval # None, envPrefix \o "UPLOAD_INTERVAL",
                Str(ToString(config.upload_interval[1])))
        \o When(config.max_consecutive_failures # None,
                envPrefix \o "MAX_CONSECUTIVE_FAILURES",
                Str(ToString(config.max_consecutive_failures[1])))
        \o When(config.max_backoff_interval # None,
                envPrefix \o "MAX_BACKOFF_INTERVAL",
                Str(ToString(config.max_backoff_interval[1])))
        \o << <<envPrefix \o "OUTPUT_DIR", config.slashid_auth_token>> >>)

\* slashid-agent.ts:234-247
setUploadConfig(this, envPrefix, config) ==
    addEnvs(this,
        << <<envPrefix \o "SLASHID_AUTH_TOKEN", config.slashid_auth_token>>,
           <<envPrefix \o "UPLOAD_URL",
             Str(IF config.upload_url # None THEN config.upload_url[1]
                 ELSE DEFAULT_UPLOAD_URL)>> >>
        \o When(config.upload_interval # None, envPrefix \o "UPLOAD_INTERVAL",
                Str(ToString(config.upload_interval[1])))
        \o When(config.max_consecutive_failures # None,
                envPrefix \o "MAX_CONSECUTIVE_FAILURES",
                Str(ToString(config.max_consecutive_failures[1])))
        \o When(config.max_backoff_interval # None,
                envPrefix \o "MAX_BACKOFF_INTERVAL",
                Str(ToString(config.max_backoff_interval[1])))
        \o << <<envPrefix \o "OUTPUT_DIR",
                Str("/tmp/slashid-agent/" \o envPrefix \o "OUTPUT")>> >>)

---------------------------------------------------------------------------
(* VPC peering (src/lib/vpc-peering.ts)                                     *)

\* Insertion-ordered Set<string> of the route table ids of the subnets.
RECURSIVE uniqueInOrder(_, _)
uniqueInOrder(seen, s) ==
    IF s = <<>> THEN seen
    ELSE uniqueInOrder(IF s[1] \in Range(seen) THEN seen ELSE Append(seen, s[1]),
                       Tail(s))

\* The ids of the constructs created in the agent's scope by peering.
ConstructIds(this) ==
    {this.peerings[i].id : i \in 1..Len(this.peerings)}
        \cup {this.routes[i].id : i \in 1..Len(this.routes)}

\* vpc-peering.ts:13-46 without the peeredVpcIds.has check of line 21.
ensureVpcConnectivityNoDedup(this, sourceVpc, targetVpc, id) ==
    IF targetVpc.vpcId = sourceVpc.vpcId THEN Return(this)
    ELSE
      LET added == [this EXCEPT !.peeredVpcIds = @ \cup {targetVpc.vpcId}]
          peeringId == id \o "VpcPeering"
          routeTableIds == uniqueInOrder(<<>>,
                               sourceVpc.publicSubnets \o sourceVpc.privateSubnets)
          newRoutes == [i \in 1..Len(routeTableIds) |->
                          [id |-> id \o "Route" \o ToString(i - 1),
                           routeTableId |-> routeTableIds[i],
                           destinationCidrBlock |-> targetVpc.vpcCidrBlock,
                           vpcPeeringConnectionId |-> peeringId]]
      IN  IF peeringId \in ConstructIds(this)
          THEN Throw(added, "There is already a Construct with name " \o peeringId)
          ELSE Return([added EXCEPT
                 !.peerings = Append(@, [id |-> peeringId,
                                         vpcId |-> sourceVpc.vpcId,
                                         peerVpcId |-> targetVpc.vpcId]),
                 !.routes = @ \o newRoutes])

\* vpc-peering.ts:13-46 without the same-VPC check of line 20.
ensureVpcConnectivityNoLocal(this, sourceVpc, targetVpc, id) ==
    IF targetVpc.vpcId \in this.peeredVpcIds THEN Return(this)
    ELSE
      LET added == [this EXCEPT !.peeredVpcIds = @ \cup {targetVpc.vpcId}]
          peeringId == id \o "VpcPeering"
          routeTableIds == uniqueInOrder(<<>>,
                               sourceVpc.publicSubnets \o sourceVpc.privateSubnets)
          newRoutes == [i \in 1..Len(routeTableIds) |->
                          [id |-> id \o "Route" \o ToString(i - 1),
                           routeTableId |-> routeTableIds[i],
                           destinationCidrBlock |-> targetVpc.vpcCidrBlock,
                           vpcPeeringConnectionId |-> peeringId]]
      IN  IF peeringId \in ConstructIds(this)
          THEN Throw(added, "There is already a Construct with name " \o peeringId)
          ELSE Return([added EXCEPT
                 !.peerings = Append(@, [id |-> peeringId,
                                         vpcId |-> sourceVpc.vpcId,
                                         peerVpcId |-> targetVpc.vpcId]),
                 !.routes = @ \o newRoutes])

\* vpc-peering.ts:13-46 without the peeredVpcIds.add of line 23.
ensureVpcConnectivityNoAdd(this, sourceVpc, targetVpc, id) ==
    IF targetVpc.vpcId = sourceVpc.vpcId THEN Return(this)
    ELSE IF targetVpc.vpcId \in this.peeredVpcIds THEN Return(this)
    ELSE
      LET peeringId == id \o "VpcPeering"
          routeTableIds == uniqueInOrder(<<>>,
                               sourceVpc.publicSubnets \o sourceVpc.privateSubnets)
          newRoutes == [i \in 1..Len(routeTableIds) |->
                          [id |-> id \o "Route" \o ToString(i - 1),
                           routeTableId |-> routeTableIds[i],
                           destinationCidrBlock |-> targetVpc.vpcCidrBlock,
                           vpcPeeringConnectionId |-> peeringId]]
      IN  IF peeringId \in ConstructIds(this)
          THEN Throw(this, "There is already a Construct with name " \o peeringId)
          ELSE Return([this EXCEPT
                 !.peerings = Append(@, [id |-> peeringId,
                                         vpcId |-> sourceVpc.vpcId,
                                         peerVpcId |-> targetVpc.vpcId]),
                 !.routes = @ \o newRoutes])

\* The ensureVpcConnectivity with one route per subnet (the variant at
\* slashid-agent.ts:579-611): RoutePublic<i> and RoutePrivate<i> for every
\* public and private subnet, shared route tables included.
ensureVpcConnectivityPerSubnet(this, sourceVpc, targetVpc, id) ==
    IF targetVpc.vpcId = sourceVpc.vpcId THEN Return(this)
    ELSE IF targetVpc.vpcId \in this.peeredVpcIds THEN Return(this)
    ELSE
      LET added == [this EXCEPT !.peeredVpcIds = @ \cup {targetVpc.vpcId}]
          peeringId == id \o "VpcPeering"
          route(kind, subnets) ==
              [i \in 1..Len(subnets) |->
                  [id |-> id \o "Route" \o kind \o ToString(i - 1),
                   routeTableId |-> subnets[i],
                   destinationCidrBlock |-> targetVpc.vpcCidrBlock,
                   vpcPeeringConnectionId |-> peeringId]]
      IN  IF peeringId \in ConstructIds(this)
          THEN Throw(added, "There is already a Construct with name " \o peeringId)
          ELSE Return([added EXCEPT
                 !.peerings = Append(@, [id |-> peeringId,
                                         vpcId |-> sourceVpc.vpcId,
                                         peerVpcId |-> targetVpc.vpcId]),
                 !.routes = @ \o route("Public", sourceVpc.publicSubnets)
                              \o route("Private", sourceVpc.privateSubnets)])

\* vpc-peering.ts:13-46.  Creating a construct whose id already exists in
\* the scope throws (constructs library), after peeredVpcIds was mutated.
ensureVpcConnectivity(this, sourceVpc, targetVpc, id) ==
    IF targetVpc.vpcId = sourceVpc.vpcId THEN Return(this)
    ELSE IF targetVpc.vpcId \in this.peeredVpcIds THEN Return(this)
    ELSE
      LET added == [this EXCEPT !.peeredVpcIds = @ \cup {targetVpc.vpcId}]
          peeringId == id \o "VpcPeering"
          routeTableIds == uniqueInOrder(<<>>,
                               sourceVpc.publicSubnets \o sourceVpc.privateSubnets)
          newRoutes == [i \in 1..Len(routeTableIds) |->
                          [id |-> id \o "Route" \o ToString(i - 1),
                           routeTableId |-> routeTableIds[i],
                           destinationCidrBlock |-> targetVpc.vpcCidrBlock,
                           vpcPeeringConnectionId |-> peeringId]]
      IN  IF peeringId \in ConstructIds(this)
          THEN Throw(added, "There is already a Construct with name " \o peeringId)
          ELSE Return([added EXCEPT
                 !.peerings = Append(@, [id |-> peeringId,
                                         vpcId |-> sourceVpc.vpcId,
                                         peerVpcId |-> targetVpc.vpcId]),
                 !.routes = @ \o newRoutes])

\* slashid-agent.ts:255-258
linkVpc(this, vpc) ==
    ensureVpcConnectivity(this, this.vpc, vpc,
        "LinkVpc" \o ToString(Cardinality(this.peeredVpcIds)))

---------------------------------------------------------------------------
(* addPostgres (slashid-agent.ts:270-322)                                   *)

\* engineType.includes('postgres') over the RDS engine types of the model.
includesPostgres(engineType) == engineType \in {"postgres", "aurora-postgresql"}

\* database.connections.allowFrom(peer, Port.tcp(port), ...)
allowFrom(this, database, peer, port) ==
    [this EXCEPT !.ingress = @ \cup {[db |-> database.id, peer |-> peer, port |-> port]}]

\* slashid-agent.ts:308-321 without the PORT write of line 310.
addPostgresInfoNoPort(this, envPrefix, db, agentConfig) ==
    LET s1 == addEnvs(this,
                << <<envPrefix \o "HOST", Str(db.host)>>,
                   <<envPrefix \o "DBNAME", db.dbname>>,
                   <<envPrefix \o "USERNAME", db.credential.username>>,
                   <<envPrefix \o "PASSWORD", db.credential.password>>,
                   <<envPrefix \o "USE_SSL", Str(BoolToString(db.use_ssl))>> >>
                \o When(agentConfig.fetch_passwords # None,
                        envPrefix \o "FETCH_PASSWORDS",
                        Str(BoolToString(agentConfig.fetch_passwords[1]))))
    IN  Return(setUploadConfig(s1, envPrefix, agentConfig))

\* slashid-agent.ts:308-321: the tail of addPostgres, on a PostgresDatabaseInfo
addPostgresInfo(this, envPrefix, db, agentConfig) ==
    LET s1 == addEnvs(this,
                << <<envPrefix \o "HOST", Str(db.host)>>,
                   <<envPrefix \o "PORT", Str(ToString(db.port))>>,
                   <<envPrefix \o "DBNAME", db.dbname>>,
                   <<envPrefix \o "USERNAME", db.credential.username>>,
                   <<envPrefix \o "PASSWORD", db.credential.password>>,
                   <<envPrefix \o "USE_SSL", Str(BoolToString(db.use_ssl))>> >>
                \o When(agentConfig.fetch_passwords # None,
                        envPrefix \o "FETCH_PASSWORDS",
                        Str(BoolToString(agentConfig.fetch_passwords[1]))))
    IN  Return(setUploadConfig(s1, envPrefix, agentConfig))

\* slashid-agent.ts:270-322 giving the ordinal back when the call throws.
addPostgresRollback(this, database, agentConfig) ==
    LET p == createEnvPrefix(this, "PSQL")
        envPrefix == p.ret
    IN
    IF database.type = "rds"     \* 'vpc' in database
    THEN
      LET engineType == IF database.engine # None
                        THEN Some(database.engine[1].engineType) ELSE None
      IN
      IF engineType # None /\ engineType[1] # "" /\ ~includesPostgres(engineType[1])
      THEN Throw(this, "addPostgres requires a PostgreSQL database, got: "
                             \o engineType[1])
      ELSE
        LET endpoint == IF database.clusterEndpoint # None
                        THEN database.clusterEndpoint[1]
                        ELSE database.instanceEndpoint[1]
            linked == linkVpc(p.this, database.vpc)
        IN
        IF linked.threw # None THEN linked
        ELSE
          LET allowed ==
                IF database.stack = this.stack
                THEN allowFrom(linked.this, database,
                               [securityGroup |-> this.securityGroup], endpoint.port)
                ELSE allowFrom(linked.this, database,
                               [ipv4 |-> database.vpc.vpcCidrBlock], endpoint.port)
              secret == database.secret
          IN
          IF secret = None
          THEN Throw([allowed EXCEPT !.envPrefixCounts = this.envPrefixCounts],
                     "RDS database must have a secret for credentials")
          ELSE addPostgresInfo(allowed, envPrefix,
                   [host |-> endpoint.hostname,
                    port |-> endpoint.port,
                    dbname |-> SecretField(secret[1], "dbname"),
                    credential |-> credentialFromSecret(secret[1], "username", "password"),
                    use_ssl |-> TRUE],
                   agentConfig)
    ELSE addPostgresInfo(p.this, envPrefix, database, agentConfig)

\* slashid-agent.ts:270-322
addPostgres(this, database, agentConfig) ==
    LET p == createEnvPrefix(this, "PSQL")
        envPrefix == p.ret
    IN
    IF database.type = "rds"     \* 'vpc' in database
    THEN
      LET engineType == IF database.engine # None
                        THEN Some(database.engine[1].engineType) ELSE None
      IN
      IF engineType # None /\ engineType[1] # "" /\ ~includesPostgres(engineType[1])
      THEN Throw(p.this, "addPostgres requires a PostgreSQL database, got: "
                             \o engineType[1])
      ELSE
        LET endpoint == IF database.clusterEndpoint # None
                        THEN database.clusterEndpoint[1]
                        ELSE database.instanceEndpoint[1]
            linked == linkVpc(p.this, database.vpc)
        IN
        IF linked.threw # None THEN linked
        ELSE
          LET allowed ==
                IF database.stack = this.stack
                THEN allowFrom(linked.this, database,
                               [securityGroup |-> this.securityGroup], endpoint.port)
                ELSE allowFrom(linked.this, database,
                               [ipv4 |-> database.vpc.vpcCidrBlock], endpoint.port)
              secret == database.secret
          IN
          IF secret = None
          THEN Throw(allowed, "RDS database must have a secret for credentials")
          ELSE addPostgresInfo(allowed, envPrefix,
                   [host |-> endpoint.hostname,
                    port |-> endpoint.port,
                    dbname |-> SecretField(secret[1], "dbname"),
                    credential |-> credentialFromSecret(secret[1], "username", "password"),
                    use_ssl |-> TRUE],
                   agentConfig)
    ELSE addPostgresInfo(p.this, envPrefix, database, agentConfig)

---------------------------------------------------------------------------
(* addActiveDirectory (slashid-agent.ts:332-420)                            *)

\* cdk.Fn.select(i, list): a token that resolves at deploy time
FnSelect(i, list) == "Fn::Select(" \o ToString(i) \o "," \o list \o ")"

\* slashid-agent.ts:333-348: a managed directory becomes an
\* ActiveDirectoryInfo with exactly two controllers.
toActiveDirectoryInfo(activeDirectory) ==
    IF activeDirectory.type = "CfnMicrosoftAD"   \* 'attrDnsIpAddresses' in ...
    THEN LET dcIps == activeDirectory.attrDnsIpAddresses
             dc0 == FnSelect(0, dcIps)
             dc1 == FnSelect(1, dcIps)
         IN  [type |-> "info", domain |-> activeDirectory.name,
              domainControllers |-> << [host |-> dc0, port |-> 389, use_ssl |-> FALSE],
                                       [host |-> dc1, port |-> 389, use_ssl |-> FALSE] >>,
              dnsServers |-> <<dc0, dc1>>]
    ELSE activeDirectory

\* slashid-agent.ts:350-374.  With an empty controller list
\* domainControllers[0] is undefined and reading .host throws a TypeError,
\* after the prefix was allocated and DOMAIN was added.
addSnapshot(this, activeDirectory, snapshotConfig) ==
    LET p == createEnvPrefix(this, "AD_SNAPSHOT")
        envPrefix == p.ret
        dcs == activeDirectory.domainControllers
        s1 == addEnv(p.this, envPrefix \o "DOMAIN", Str(activeDirectory.domain))
    IN
    IF dcs = <<>>
    THEN Throw(s1, "TypeError: Cannot read properties of undefined (reading 'host')")
    ELSE
      LET defaultDomainController == dcs[1]
          s2 == addEnvs(s1,
                  << <<envPrefix \o "TARGET_DC", Str(defaultDomainController.host)>>,
                     <<envPrefix \o "LDAPS",
                       Str(BoolToString(defaultDomainController.use_ssl))>>,
                     <<envPrefix \o "LDAP_PORT",
                       Str(ToString(defaultDomainController.port))>>,
                     <<envPrefix \o "USERNAME", snapshotConfig.credential.username>>,
                     <<envPrefix \o "PASSWORD", snapshotConfig.credential.password>> >>
                  \o (IF Len(activeDirectory.dnsServers) > 0
                      THEN << <<envPrefix \o "FQDN_RESOLVER",
                                Str(activeDirectory.dnsServers[1])>> >>
                      ELSE <<>>)
                  \o (IF snapshotConfig.collect_adcs # None
                      THEN << <<envPrefix \o "COLLECT_ADCS",
                                Str(BoolToString(snapshotConfig.collect_adcs[1]))>> >>
                      ELSE <<>>)
                  \o (IF snapshotConfig.collection_method # None
                      THEN << <<envPrefix \o "COLLECTION_METHOD",
                                Str(snapshotConfig.collection_method[1])>> >>
                      ELSE <<>>)
                  \o << <<envPrefix \o "RUSTHOUND_PATH",
                          Str("/usr/local/bin/rusthound-ce")>> >>)
      IN  Return(setUploadConfig(s2, envPrefix, snapshotConfig))

\* slashid-agent.ts:378-415 with TARGET_DC taken from the first controller.
addWmiFirstController(this, activeDirectory, dc, wmiConfig) ==
    LET p == createEnvPrefix(this, "WMI")
        envPrefix == p.ret
        opt(field, name) ==
            IF field # None THEN << <<envPrefix \o name, Str(field[1])>> >> ELSE <<>>
        optNum(field, name) ==
            IF field # None THEN << <<envPrefix \o name, Str(ToString(field[1]))>> >>
            ELSE <<>>
    IN  addEnvs(p.this,
          << <<envPrefix \o "DOMAIN", Str(activeDirectory.domain)>>,
             <<envPrefix \o "TARGET_DC", Str(activeDirectory.domainControllers[1].host)>>,
             <<envPrefix \o "USERNAME", wmiConfig.credential.username>>,
             <<envPrefix \o "PASSWORD", wmiConfig.credential.password>>,
             <<envPrefix \o "SLASHID_AUTH_TOKEN", wmiConfig.slashid_auth_token>>,
             <<envPrefix \o "STREAM_URL",
               Str(IF wmiConfig.stream_url # None THEN wmiConfig.stream_url[1]
                   ELSE DEFAULT_STREAM_URL)>> >>
          \o opt(wmiConfig.namespace, "NAMESPACE")
          \o opt(wmiConfig.hashes, "HASHES")
          \o (IF wmiConfig.kerberos_auth # None
              THEN << <<envPrefix \o "KERBEROS_AUTH",
                        Str(BoolToString(wmiConfig.kerberos_auth[1]))>> >>
              ELSE <<>>)
          \o (IF wmiConfig.aes_key # None
              THEN << <<envPrefix \o "AES_KEY", wmiConfig.aes_key[1]>> >> ELSE <<>>)
          \o opt(wmiConfig.rpc_auth_level, "RPC_AUTH_LEVEL")
          \o optNum(wmiConfig.timeout, "TIMEOUT")
          \o optNum(wmiConfig.events_pull_interval, "EVENTS_PULL_INTERVAL")
          \o optNum(wmiConfig.max_events_per_pull, "MAX_EVENTS_PER_PULL")
          \o optNum(wmiConfig.connection_error_delay, "CONNECTION_ERROR_DELAY"))

\* slashid-agent.ts:378-415: the body of the loop for one controller
addWmi(this, activeDirectory, dc, wmiConfig) ==
    LET p == createEnvPrefix(this, "WMI")
        envPrefix == p.ret
        opt(field, name) ==
            IF field # None THEN << <<envPrefix \o name, Str(field[1])>> >> ELSE <<>>
        optNum(field, name) ==
            IF field # None THEN << <<envPrefix \o name, Str(ToString(field[1]))>> >>
            ELSE <<>>
    IN  addEnvs(p.this,
          << <<envPrefix \o "DOMAIN", Str(activeDirectory.domain)>>,
             <<envPrefix \o "TARGET_DC", Str(dc.host)>>,
             <<envPrefix \o "USERNAME", wmiConfig.credential.username>>,
             <<envPrefix \o "PASSWORD", wmiConfig.credential.password>>,
             <<envPrefix \o "SLASHID_AUTH_TOKEN", wmiConfig.slashid_auth_token>>,
             <<envPrefix \o "STREAM_URL",
               Str(IF wmiConfig.stream_url # None THEN wmiConfig.stream_url[1]
                   ELSE DEFAULT_STREAM_URL)>> >>
          \o opt(wmiConfig.namespace, "NAMESPACE")
          \o opt(wmiConfig.hashes, "HASHES")
          \o (IF wmiConfig.kerberos_auth # None
              THEN << <<envPrefix \o "KERBEROS_AUTH",
                        Str(BoolToString(wmiConfig.kerberos_auth[1]))>> >>
              ELSE <<>>)
          \o (IF wmiConfig.aes_key # None
              THEN << <<envPrefix \o "AES_KEY", wmiConfig.aes_key[1]>> >> ELSE <<>>)
          \o opt(wmiConfig.rpc_auth_level, "RPC_AUTH_LEVEL")
          \o optNum(wmiConfig.timeout, "TIMEOUT")
          \o optNum(wmiConfig.events_pull_interval, "EVENTS_PULL_INTERVAL")
          \o optNum(wmiConfig.max_events_per_pull, "MAX_EVENTS_PER_PULL")
          \o optNum(wmiConfig.connection_error_delay, "CONNECTION_ERROR_DELAY"))

\* slashid-agent.ts:377: for (const dc of activeDirectory.domainControllers)
RECURSIVE addWmiLoop(_, _, _, _)
addWmiLoop(this, activeDirectory, dcs, wmiConfig) ==
    IF dcs = <<>> THEN this
    ELSE addWmiLoop(addWmi(this, activeDirectory, dcs[1], wmiConfig),
                    activeDirectory, Tail(dcs), wmiConfig)

\* slashid-agent.ts:332-420 peering with the directory's VPC (here VpcB) on
\* its own, as addPostgres does for an RDS database.
addActiveDirectoryLinksVpc(this, activeDirectoryArg, agentConfig) ==
    LET activeDirectory == toActiveDirectoryInfo(activeDirectoryArg)
        linked == linkVpc(this, VpcB).this
        snap == IF agentConfig.snapshot # None
                THEN addSnapshot(linked, activeDirectory, agentConfig.snapshot[1])
                ELSE Return(linked)
    IN  IF snap.threw # None THEN snap
        ELSE IF agentConfig.wmi # None
             THEN Return(addWmiLoop(snap.this, activeDirectory,
                                    activeDirectory.domainControllers,
                                    agentConfig.wmi[1]))
             ELSE snap

\* slashid-agent.ts:332-420 with the createEnvPrefix("WMI") of line 378 also
\* called once before the loop over the controllers.
addActiveDirectoryHoistsPrefix(this, activeDirectoryArg, agentConfig) ==
    LET activeDirectory == toActiveDirectoryInfo(activeDirectoryArg)
        snap == IF agentConfig.snapshot # None
                THEN addSnapshot(this, activeDirectory, agentConfig.snapshot[1])
                ELSE Return(this)
    IN  IF snap.threw # None THEN snap
        ELSE IF agentConfig.wmi # None
             THEN Return(addWmiLoop(createEnvPrefix(snap.this, "WMI").this,
                                    activeDirectory,
                                    activeDirectory.domainControllers,
                                    agentConfig.wmi[1]))
             ELSE snap

\* slashid-agent.ts:332-420
addActiveDirectory(this, activeDirectoryArg, agentConfig) ==
    LET activeDirectory == toActiveDirectoryInfo(activeDirectoryArg)
        snap == IF agentConfig.snapshot # None
                THEN addSnapshot(this, activeDirectory, agentConfig.snapshot[1])
                ELSE Return(this)
    IN  IF snap.threw # None THEN snap
        ELSE IF agentConfig.wmi # None
             THEN Return(addWmiLoop(snap.this, activeDirectory,
                                    activeDirectory.domainControllers,
                                    agentConfig.wmi[1]))
             ELSE snap

---------------------------------------------------------------------------
(* SlashidAgentStack (src/lib/slashid-agent-stack.ts)                       *)

SECRET_PLACEHOLDER == "<secret>"

\* PostgresDatabaseInfo of slashid-agent-stack.ts:285-292 (plain strings)
StackDatabaseInfo ==
    [type |-> "info", host |-> "pg.example.com", port |-> 5432,
     dbname |-> "appdb", username |-> "admin", password |-> "hunter2",
     use_ssl |-> None]

\* The RDS databases of Databases(1) and one literal descriptor.
StackDatabases ==
    <<Databases(1)[1], Databases(1)[2], Databases(1)[3], Databases(1)[4],
      StackDatabaseInfo>>

\* PostgresAgentConfig of slashid-agent-stack.ts:273-283
StackConfigs == <<
    [slashid_auth_token |-> "tok-literal", upload_url |-> None,
     upload_interval |-> None, max_consecutive_failures |-> None,
     max_backoff_interval |-> None, fetch_passwords |-> None],
    [slashid_auth_token |-> "tok-other",
     upload_url |-> Some("https://upload.example.com"),
     upload_interval |-> Some(60), max_consecutive_failures |-> Some(5),
     max_backoff_interval |-> Some(900), fetch_passwords |-> Some(FALSE)] >>

\* A run of consecutive this.containerEnv[name] = value statements.
RECURSIVE envSets(_, _)
envSets(env, writes) ==
    IF writes = <<>> THEN env
    ELSE envSets(EnvSet(env, writes[1][1], writes[1][2]), Tail(writes))

\* slashid-agent-stack.ts:56-82: field initialisers and the constructor
NewStack(vpc) ==
    [containerEnv |-> <<[name |-> "LOG_LEVEL", value |-> "INFO"]>>,
     fetchSecretsScript |-> <<"#!/bin/bash", "> /run/secrets.env">>,
     peeredVpcIds |-> {}, envPrefixCounts |-> <<>>,
     vpc |-> vpc, region |-> Region, stack |-> AgentStack,
     securityGroup |-> "SlashidAgentStack/SecurityGroup",
     granted |-> {}, peerings |-> <<>>, routes |-> <<>>, ingress |-> {},
     allocated |-> <<>>]

\* slashid-agent-stack.ts:215-229: grant and fetch lines for an owned secret
stackFetchSecret(this, envPrefix, secret) ==
    LET line(key, field) ==
            "echo \"" \o envPrefix \o key \o "=$(echo $SECRET | jq -r ." \o field
                \o ")\" >> /run/secrets.env"
    IN  [this EXCEPT
           !.granted = @ \cup {secret.secretArn},
           !.fetchSecretsScript = @ \o
              <<"SECRET=$(aws secretsmanager get-secret-value --secret-id "
                    \o secret.secretArn
                    \o " --query SecretString --output text --region "
                    \o this.region \o ")",
                line("HOST", "host"), line("PORT", "port"),
                line("DBNAME", "dbname"), line("USERNAME", "username"),
                line("PASSWORD", "password")>>]

\* slashid-agent-stack.ts:241-268: the environment writes of addPostgres
stackAddPostgresInfo(this, envPrefix, database, agentConfig) ==
    LET opt(cond, name, value) == IF cond THEN << <<name, value>> >> ELSE <<>>
    IN  Return([this EXCEPT !.containerEnv = envSets(@,
          << <<envPrefix \o "HOST", database.host>>,
             <<envPrefix \o "PORT", ToString(database.port)>> >>
          \o opt(database.use_ssl # None, envPrefix \o "USE_SSL",
                 IF database.use_ssl # None /\ database.use_ssl[1]
                 THEN "true" ELSE "false")
          \o << <<envPrefix \o "DBNAME", database.dbname>>,
                <<envPrefix \o "USERNAME", database.username>>,
                <<envPrefix \o "PASSWORD", database.password>>,
                <<envPrefix \o "SLASHID_AUTH_TOKEN", agentConfig.slashid_auth_token>>,
                <<envPrefix \o "UPLOAD_URL",
                  IF agentConfig.upload_url # None THEN agentConfig.upload_url[1]
                  ELSE DEFAULT_UPLOAD_URL>> >>
          \o opt(agentConfig.fetch_passwords # None, envPrefix \o "FETCH_PASSWORDS",
                 IF agentConfig.fetch_passwords # None /\ agentConfig.fetch_passwords[1]
                 THEN "true" ELSE "false")
          \o opt(agentConfig.upload_interval # None, envPrefix \o "UPLOAD_INTERVAL",
                 IF agentConfig.upload_interval # None
                 THEN ToString(agentConfig.upload_interval[1]) ELSE "")
          \o opt(agentConfig.max_consecutive_failures # None,
                 envPrefix \o "MAX_CONSECUTIVE_FAILURES",
                 IF agentConfig.max_consecutive_failures # None
                 THEN ToString(agentConfig.max_consecutive_failures[1]) ELSE "")
          \o opt(agentConfig.max_backoff_interval # None,
                 envPrefix \o "MAX_BACKOFF_INTERVAL",
                 IF agentConfig.max_backoff_interval # None
                 THEN ToString(agentConfig.max_backoff_interval[1]) ELSE "")
          \o << <<envPrefix \o "OUTPUT_DIR",
                  "/tmp/slashid-agent/" \o envPrefix \o "OUTPUT">> >>)])

\* slashid-agent-stack.ts:197-269.  createEnvPrefix (181-185) is the same
\* code as SlashidAgent.createEnvPrefix.
stackAddPostgres(this, database, agentConfig) ==
    LET p == createEnvPrefix(this, "PSQL")
        envPrefix == p.ret
    IN
    IF database.type = "rds"     \* 'vpc' in database
    THEN
      LET endpoint == IF database.clusterEndpoint # None
                      THEN database.clusterEndpoint[1]
                      ELSE database.instanceEndpoint[1]
          linked == ensureVpcConnectivity(p.this, this.vpc, database.vpc, "Postgres")
      IN
      IF linked.threw # None THEN linked
      ELSE
        LET allowed ==
              IF database.stack = this.stack
              THEN allowFrom(linked.this, database,
                             [securityGroup |-> this.securityGroup], endpoint.port)
              ELSE allowFrom(linked.this, database,
                             [ipv4 |-> database.vpc.vpcCidrBlock], endpoint.port)
            secret == database.secret
            fetched == IF secret # None
                       THEN stackFetchSecret(allowed, envPrefix, secret[1])
                       ELSE allowed
        IN  stackAddPostgresInfo(fetched, envPrefix,
                [host |-> SECRET_PLACEHOLDER, port |-> 0,
                 dbname |-> SECRET_PLACEHOLDER, username |-> SECRET_PLACEHOLDER,
                 password |-> SECRET_PLACEHOLDER, use_ssl |-> Some(FALSE)],
                agentConfig)
    ELSE stackAddPostgresInfo(p.this, envPrefix, database, agentConfig)

---------------------------------------------------------------------------
(* Construction and the public operations as actions                       *)

\* slashid-agent.ts:56-62, 64-84: field initialisers and the constructor's
\* three addEnv calls, with the default logLevel.
NewAgent(vpc) ==
    addEnvs([containerEnv |-> <<>>, fetchSecretsCommands |-> <<>>,
             peeredVpcIds |-> {}, envPrefixCounts |-> <<>>,
             vpc |-> vpc, region |-> Region, stack |-> AgentStack,
             securityGroup |-> "SlashidAgent/SecurityGroup",
             granted |-> {}, peerings |-> <<>>, routes |-> <<>>, ingress |-> {},
             allocated |-> <<>>, trace |-> <<>>],
            << <<"LOG_LEVEL", Str("INFO")>>,
               <<"STORAGE_BACKEND", Str("static")>>,
               <<"STORAGE_STATIC_agent_instance_id",
                 Str(agentInstanceId("123456789012", Region,
                                     AgentStack \o "/SlashidAgent"))>> >>)

Init ==
    /\ agent = NewAgent(VpcA)
    /\ twin = NewAgent(VpcA)
    /\ history = <<>>
    /\ slashidAgentStack = NewStack(VpcA)
    /\ stackHistory = <<>>
    /\ artifacts = <<>>

\* One entry of `history`: the call, its arguments (indices into Vpcs,
\* Databases, PostgresConfigs, Directories, DirectoryConfigs), the error it
\* threw (None when it returned) and the prefixes it allocated.
Call(op, args, before, result) ==
    [op |-> op, args |-> args, threw |-> result.threw,
     prefixes |-> SubSeq(result.this.allocated, Len(before.allocated) + 1,
                         Len(result.this.allocated))]

\* The second instance receives the same call (with its own secrets) when
\* the two instances are run as a pair, and is left alone otherwise.
LinkVpc(v, paired) ==
    /\ Len(history) < (IF paired THEN MaxPairCalls ELSE MaxCalls)
    /\ \E r \in {linkVpc(agent, Vpcs[v])} :
         /\ agent' = r.this
         /\ history' = Append(history, Call("linkVpc", <<v>>, agent, r))
    /\ twin' = IF paired THEN linkVpc(twin, Vpcs[v]).this ELSE twin
    /\ UNCHANGED <<slashidAgentStack, stackHistory, artifacts>>

AddPostgres(d, c, paired) ==
    /\ Len(history) < (IF paired THEN MaxPairCalls ELSE MaxCalls)
    /\ \E r \in {addPostgres(agent, Databases(1)[d], PostgresConfigs(1)[c])} :
         /\ agent' = r.this
         /\ history' = Append(history, Call("addPostgres", <<d, c>>, agent, r))
    /\ twin' = IF paired
               THEN addPostgres(twin, Databases(2)[d], PostgresConfigs(2)[c]).this
               ELSE twin
    /\ UNCHANGED <<slashidAgentStack, stackHistory, artifacts>>

AddActiveDirectory(a, c, paired) ==
    /\ Len(history) < (IF paired THEN MaxPairCalls ELSE MaxCalls)
    /\ \E r \in {addActiveDirectory(agent, Directories[a], DirectoryConfigs(1)[c])} :
         /\ agent' = r.this
         /\ history' = Append(history, Call("addActiveDirectory", <<a, c>>, agent, r))
    /\ twin' = IF paired
               THEN addActiveDirectory(twin, Directories[a], DirectoryConfigs(2)[c]).this
               ELSE twin
    /\ UNCHANGED <<slashidAgentStack, stackHistory, artifacts>>

\* The (database, config) and (directory, config) pairs a call may name.
PostgresCalls == {<<1, 1>>, <<1, 2>>, <<2, 2>>, <<3, 1>>, <<4, 2>>, <<5, 1>>}

DirectoryCalls == {<<1, 1>>, <<1, 4>>, <<2, 2>>, <<2, 3>>, <<3, 3>>, <<3, 4>>}

Next ==
    \/ \E v \in 1..Len(Vpcs) : LinkVpc(v, FALSE)
    \/ \E x \in PostgresCalls : AddPostgres(x[1], x[2], FALSE)
    \/ \E x \in DirectoryCalls : AddActiveDirectory(x[1], x[2], FALSE)

Spec == Init /\ [][Next]_vars

\* Two instances that receive the same calls
NextPair ==
    \/ \E v \in 1..Len(Vpcs) : LinkVpc(v, TRUE)
    \/ \E x \in PostgresCalls : AddPostgres(x[1], x[2], TRUE)
    \/ \E x \in DirectoryCalls : AddActiveDirectory(x[1], x[2], TRUE)

SpecPair == Init /\ [][NextPair]_vars

\* addPostgres on the SlashidAgentStack instance
StackAddPostgres(d, c) ==
    /\ Len(stackHistory) < MaxStackCalls
    /\ \E r \in {stackAddPostgres(slashidAgentStack, StackDatabases[d], StackConfigs[c])} :
         /\ slashidAgentStack' = r.this
         /\ stackHistory' = Append(stackHistory,
                                   Call("addPostgres", <<d, c>>, slashidAgentStack, r))
    /\ UNCHANGED <<agent, twin, history, artifacts>>

NextStack ==
    \E d \in 1..Len(StackDatabases), c \in 1..Len(StackConfigs) : StackAddPostgres(d, c)

SpecStack == Init /\ [][NextStack]_vars


---------------------------------------------------------------------------
(* Rendered artifacts (slashid-agent.ts:133-145, 162-168)                   *)

\* Array.prototype.join
RECURSIVE join(_, _)
join(lines, sep) ==
    IF lines = <<>> THEN ""
    ELSE IF Len(lines) = 1 THEN lines[1]
    ELSE lines[1] \o sep \o join(Tail(lines), sep)

\* The lines of the envfile package's stringify: one KEY=value line per
\* entry, in the insertion order of the object's keys.
envLines(env) == [i \in 1..Len(env) |-> env[i].name \o "=" \o env[i].value]

\* stringify of the envfile package: every line followed by a newline.
stringifyEnv(env) == join([i \in 1..Len(env) |-> envLines(env)[i] \o "\n"], "")

\* slashid-agent.ts:135-143 without the truncation of line 139.
startScriptLinesNoTruncate(this) ==
    <<"#!/bin/bash", "set -e", "cd /opt">>
        \o this.fetchSecretsCommands
        \o <<"docker compose up -d --pull always", "docker image prune -f">>

\* slashid-agent.ts:135-143: the `lines` array of buildStartScript
startScriptLines(this) ==
    <<"#!/bin/bash", "set -e", "cd /opt", "> /run/slashid-agent-secrets.env">>
        \o this.fetchSecretsCommands
        \o <<"docker compose up -d --pull always", "docker image prune -f">>

\* slashid-agent.ts:134-145
buildStartScript(this) == join(startScriptLines(this), "\n")

\* One run of /opt/start-slashid-agent.sh (at first boot, slashid-agent.ts:168,
\* and hourly from cron, :170) on the runtime secrets file, with every
\* command succeeding: `> file` empties the file, a fetch command
\* (`echo "NAME=$(...)" >> file`) appends one entry, recorded as the
\* command that wrote it; the other lines leave the file alone.
RECURSIVE runStartScript(_, _, _)
runStartScript(this, lines, file) ==
    IF lines = <<>> THEN file
    ELSE runStartScript(this, Tail(lines),
            IF lines[1] = "> /run/slashid-agent-secrets.env" THEN <<>>
            ELSE IF lines[1] \in Range(this.fetchSecretsCommands)
                 THEN Append(file, lines[1])
                 ELSE file)

\* slashid-agent.ts:165: the producer of the Lazy string that holds the
\* environment file, evaluated at construction instead of at rendering.
renderEnvFileAtConstruction(this) == envLines(NewAgent(this.vpc).containerEnv)

\* slashid-agent.ts:165: the producer of the Lazy string that holds
\* /opt/slashid-agent.env; it reads containerEnv when the token is resolved.
renderEnvFile(this) == envLines(this.containerEnv)

\* slashid-agent.ts:167: the producer of the Lazy string that holds
\* /opt/start-slashid-agent.sh.
renderStartScript(this) == startScriptLines(this)

\* Resolution of the Lazy strings of the user data (synthesis).  `calls` and
\* `writes` record how many public calls and addEnv calls had been made.
Render ==
    /\ Len(artifacts) < MaxRenders
    /\ artifacts' = Append(artifacts,
                           [envFile     |-> renderEnvFile(agent),
                            startScript |-> renderStartScript(agent),
                            calls       |-> Len(history),
                            writes      |-> Len(agent.trace)])
    /\ UNCHANGED <<agent, twin, history, slashidAgentStack, stackHistory>>

\* The calls made when renderings are interleaved.
RenderPostgresCalls == {<<1, 2>>, <<2, 1>>, <<4, 1>>, <<5, 1>>}

RenderDirectoryCalls == {<<1, 4>>, <<2, 3>>}

\* Nothing in the code stops a public call after a rendering, or a second
\* rendering: calls and renderings interleave freely.
NextRender ==
    \/ Len(history) < MaxRenderCalls /\ LinkVpc(2, FALSE)
    \/ Len(history) < MaxRenderCalls
          /\ \E x \in RenderPostgresCalls : AddPostgres(x[1], x[2], FALSE)
    \/ Len(history) < MaxRenderCalls
          /\ \E x \in RenderDirectoryCalls : AddActiveDirectory(x[1], x[2], FALSE)
    \/ Render

SpecRender == Init /\ [][NextRender]_vars

---------------------------------------------------------------------------
(* Properties                                                               *)

LastCall == history[Len(history)]

\* The i-th call was an addPostgres / addActiveDirectory / linkVpc call.
IsPostgres(i) == history[i].op = "addPostgres"

IsDirectory(i) == history[i].op = "addActiveDirectory"

IsLink(i) == history[i].op = "linkVpc"

\* The number of addPostgres calls among the first i calls.
PostgresOrdinal(i) == Cardinality({j \in 1..i : IsPostgres(j)})

\* C1: the k-th addPostgres call on the instance is assigned the prefix
\* PSQL_k_, whatever addActiveDirectory and linkVpc calls are interleaved
\* (so the PSQL ordinals start at 1, increase strictly and never repeat).
C1_PsqlOrdinals ==
    \A i \in 1..Len(history) :
        IsPostgres(i) =>
            /\ Len(history[i].prefixes) = 1
            /\ history[i].prefixes[1].ret
                  = "PSQL_" \o ToString(PostgresOrdinal(i)) \o "_"

\* Two addPostgres calls with a prefix-allocating addActiveDirectory call
\* between them; the second addPostgres call got PSQL_2_.
C1_Witness ==
    /\ Len(history) = 3
    /\ IsPostgres(1) /\ IsDirectory(2) /\ IsPostgres(3)
    /\ history[2].prefixes # <<>>
    /\ history[3].prefixes[1].ret = "PSQL_2_"

\* The VPC a call asks ensureVpcConnectivity to reach: the argument of
\* linkVpc, or the VPC of the RDS database given to addPostgres.
RequestsLink(call) ==
    \/ call.op = "linkVpc"
    \/ call.op = "addPostgres" /\ Databases(1)[call.args[1]].type = "rds"

TargetVpc(call) ==
    IF call.op = "linkVpc" THEN Vpcs[call.args[1]]
    ELSE Databases(1)[call.args[1]].vpc

LinkState(this) == <<this.peeredVpcIds, this.peerings, this.routes>>

\* C2: at most one peering connection exists per target VPC id, and a
\* request (linkVpc or RDS addPostgres) for a target that is already in
\* peeredVpcIds creates no peering connection, no route, and leaves
\* peeredVpcIds unchanged.
C2_OneLinkPerTarget ==
    /\ [](\A i, j \in 1..Len(agent.peerings) :
            agent.peerings[i].peerVpcId = agent.peerings[j].peerVpcId => i = j)
    /\ [][(/\ history' # history
           /\ RequestsLink(LastCall')
           /\ TargetVpc(LastCall').vpcId \in agent.peeredVpcIds)
          => LinkState(agent') = LinkState(agent)]_vars

\* The same foreign VPC was requested twice (by linkVpc and by an RDS
\* addPostgres, in either order) and one peering connection exists.
C2_Witness ==
    /\ Len(history) >= 2
    /\ RequestsLink(history[1]) /\ RequestsLink(history[2])
    /\ history[1].op # history[2].op
    /\ history[2].threw = None
    /\ TargetVpc(history[1]).vpcId = "vpc-b"
    /\ TargetVpc(history[2]).vpcId = "vpc-b"
    /\ Len(agent.peerings) = 1

\* C3: the agent's own VPC id is never in peeredVpcIds and never the peer
\* of a peering connection, and a request whose target is the agent's own
\* VPC creates no link and no route and leaves peeredVpcIds unchanged.
C3_NoSelfLink ==
    /\ [](/\ agent.vpc.vpcId \notin agent.peeredVpcIds
          /\ \A i \in 1..Len(agent.peerings) :
                agent.peerings[i].peerVpcId # agent.vpc.vpcId)
    /\ [][(/\ history' # history
           /\ RequestsLink(LastCall')
           /\ TargetVpc(LastCall').vpcId = agent.vpc.vpcId)
          => LinkState(agent') = LinkState(agent)]_vars

\* The agent's own VPC was requested by linkVpc and by an RDS addPostgres
\* that completed.
C3_Witness ==
    /\ Len(history) >= 2
    /\ \E i, j \in 1..Len(history) :
          /\ IsLink(i) /\ IsPostgres(j) /\ RequestsLink(history[j])
          /\ history[j].threw = None
          /\ TargetVpc(history[i]).vpcId = agent.vpc.vpcId
          /\ TargetVpc(history[j]).vpcId = agent.vpc.vpcId

\* The addEnv calls that named a secret (whole secret or secret field), in
\* call order.
SecretCalls(this) == SelectSeq(this.trace, LAMBDA e : e.value.type # "string")

\* The i-th addEnv call is the last one that wrote its variable name.
LastWrite(this, i) ==
    \A j \in (i + 1)..Len(this.trace) : this.trace[j].name # this.trace[i].name

\* The placeholder of a secret reference: the secret's name, and the field
\* name of a field reference.
Placeholder(value) ==
    IF value.type = "field"
    THEN "secret(" \o value.secret.secretName \o ")." \o value.field
    ELSE "secret(" \o value.secret.secretName \o ")"

\* C4: every variable added with a secret reference holds a placeholder
\* built from the secret's name and the field name only, and two runs that
\* apply the same calls and differ only in the contents of the secrets have
\* the same environment-file text and the same start script (the same
\* lines, from which stringifyEnv and buildStartScript build the text).
C4_NoSecretValueInArtifacts ==
    /\ \A i \in 1..Len(agent.trace) :
          (agent.trace[i].value.type # "string" /\ LastWrite(agent, i)) =>
              agent.containerEnv[EnvGet(agent.containerEnv, agent.trace[i].name)].value
                  = Placeholder(agent.trace[i].value)
    /\ envLines(agent.containerEnv) = envLines(twin.containerEnv)
    /\ startScriptLines(agent) = startScriptLines(twin)

\* Both runs resolved a secret field and a whole secret whose contents
\* differ between the runs.
C4_Witness ==
    /\ Len(twin.trace) = Len(agent.trace)
    /\ \E i \in 1..Len(agent.trace) :
          /\ agent.trace[i].value.type = "field"
          /\ agent.trace[i].value.secret.secretString
                # twin.trace[i].value.secret.secretString
    /\ \E i \in 1..Len(agent.trace) :
          /\ agent.trace[i].value.type = "secret"
          /\ agent.trace[i].value.secret.secretString
                # twin.trace[i].value.secret.secretString

\* C5: a plain-string value is stored verbatim under its variable name, and
\* plain-string calls add no fetch command and no read grant: the fetch
\* commands and the grants are exactly those of the secret-reference calls.
C5_LiteralVerbatim ==
    LET calls == SecretCalls(agent)
    IN  /\ \A i \in 1..Len(agent.trace) :
              (agent.trace[i].value.type = "string" /\ LastWrite(agent, i)) =>
                  /\ EnvHas(agent.containerEnv, agent.trace[i].name)
                  /\ agent.containerEnv[EnvGet(agent.containerEnv,
                                               agent.trace[i].name)].value
                        = agent.trace[i].value.string
        /\ Len(agent.fetchSecretsCommands) = Len(calls)
        /\ agent.granted = {calls[k].value.secret.secretArn : k \in 1..Len(calls)}

\* A call that resolved only plain strings after construction: the
\* environment grew and there is still no fetch command and no grant.
C5_Witness ==
    /\ Len(history) >= 1
    /\ Len(agent.trace) > 3
    /\ \A i \in 1..Len(agent.trace) : agent.trace[i].value.type = "string"
    /\ agent.fetchSecretsCommands = <<>>
    /\ agent.granted = {}

\* The fetch command that writes secret reference `value` under `name`.
FetchCommand(name, value, region) ==
    IF value.type = "field"
    THEN "echo \"" \o name \o "=$(aws secretsmanager get-secret-value --secret-id "
            \o value.secret.secretArn
            \o " --query SecretString --output text --region " \o region
            \o " | jq -r '." \o value.field
            \o "')\" >> /run/slashid-agent-secrets.env"
    ELSE "echo \"" \o name \o "=$(aws secretsmanager get-secret-value --secret-id "
            \o value.secret.secretArn
            \o " --query SecretString --output text --region " \o region
            \o ")\" >> /run/slashid-agent-secrets.env"

\* C6: the k-th resolution of a secret reference appended exactly the k-th
\* fetch command, which writes under that call's variable name (the named
\* JSON field of a field reference, the whole text of a whole-secret
\* reference), and the secret of every fetch command is granted to the role.
C6_FetchAndGrantPerSecret ==
    LET calls == SecretCalls(agent)
    IN  /\ Len(agent.fetchSecretsCommands) = Len(calls)
        /\ \A k \in 1..Len(calls) :
              /\ agent.fetchSecretsCommands[k]
                    = FetchCommand(calls[k].name, calls[k].value, agent.region)
              /\ calls[k].value.secret.secretArn \in agent.granted

\* A field reference and a whole-secret reference were both resolved.
C6_Witness ==
    LET calls == SecretCalls(agent)
    IN  /\ \E k \in 1..Len(calls) : calls[k].value.type = "field"
        /\ \E k \in 1..Len(calls) : calls[k].value.type = "secret"
        /\ Len(agent.fetchSecretsCommands) >= 2

\* What follows the variable name in the fetch command of a reference.
FetchSuffix(value, region) ==
    IF value.type = "field"
    THEN "=$(aws secretsmanager get-secret-value --secret-id "
            \o value.secret.secretArn
            \o " --query SecretString --output text --region " \o region
            \o " | jq -r '." \o value.field
            \o "')\" >> /run/slashid-agent-secrets.env"
    ELSE "=$(aws secretsmanager get-secret-value --secret-id "
            \o value.secret.secretArn
            \o " --query SecretString --output text --region " \o region
            \o ")\" >> /run/slashid-agent-secrets.env"

\* Two resolutions (the i-th and j-th of `calls`) of the same secret field
\* under different names.
SameFieldTwice(calls, i, j) ==
    /\ i # j
    /\ calls[i].value.type = "field"
    /\ calls[i].value = calls[j].value
    /\ calls[i].name # calls[j].name

\* C7: the same secret field resolved under two different variable names
\* gives both variables the same placeholder text, and two fetch commands
\* that are the same text around the two variable names.
C7_SameFieldSamePlaceholder ==
    LET calls == SecretCalls(agent)
        env   == agent.containerEnv
        suffixes == {FetchSuffix(calls[k].value, agent.region) : k \in 1..Len(calls)}
    IN  \A i, j \in 1..Len(calls) :
            SameFieldTwice(calls, i, j) =>
                /\ env[EnvGet(env, calls[i].name)].value
                      = env[EnvGet(env, calls[j].name)].value
                /\ \E suffix \in suffixes :
                      /\ agent.fetchSecretsCommands[i]
                            = "echo \"" \o calls[i].name \o suffix
                      /\ agent.fetchSecretsCommands[j]
                            = "echo \"" \o calls[j].name \o suffix

\* One addActiveDirectory call used the same password field for the
\* snapshot and for a WMI sub-connection.
C7_Witness ==
    LET calls == SecretCalls(agent)
    IN  \E i, j \in 1..Len(calls) :
            /\ SameFieldTwice(calls, i, j)
            /\ calls[i].name = "AD_SNAPSHOT_1_PASSWORD"
            /\ calls[j].name = "WMI_1_PASSWORD"

\* The prefixes of kind `kind` that the i-th call allocated, in order.
PrefixesOf(i, kind) == SelectSeq(history[i].prefixes, LAMBDA a : a.kind = kind)

DirectoryOf(i) == toActiveDirectoryInfo(Directories[history[i].args[1]])

DirectoryConfigOf(i) == DirectoryConfigs(1)[history[i].args[2]]

\* C8: an addActiveDirectory call with n controllers allocates exactly one
\* AD_SNAPSHOT prefix if snapshot collection is requested (none otherwise),
\* whose TARGET_DC is the first controller when there is one, and exactly n
\* distinct WMI prefixes if WMI collection is requested (none otherwise),
\* the m-th of which carries the m-th controller's host as TARGET_DC.
C8_DirectoryFanOut ==
    \A i \in 1..Len(history) :
        IsDirectory(i) =>
            LET dcs  == DirectoryOf(i).domainControllers
                cfg  == DirectoryConfigOf(i)
                snap == PrefixesOf(i, "AD_SNAPSHOT")
                wmi  == PrefixesOf(i, "WMI")
                env  == agent.containerEnv
            IN  /\ Len(snap) = (IF cfg.snapshot # None THEN 1 ELSE 0)
                /\ (cfg.snapshot # None /\ Len(dcs) >= 1) =>
                      /\ EnvHas(env, snap[1].ret \o "TARGET_DC")
                      /\ env[EnvGet(env, snap[1].ret \o "TARGET_DC")].value = dcs[1].host
                /\ Len(wmi) = (IF cfg.wmi # None THEN Len(dcs) ELSE 0)
                /\ \A m, k \in 1..Len(wmi) : wmi[m].ret = wmi[k].ret => m = k
                /\ \A m \in 1..Len(wmi) :
                      /\ EnvHas(env, wmi[m].ret \o "TARGET_DC")
                      /\ env[EnvGet(env, wmi[m].ret \o "TARGET_DC")].value = dcs[m].host

\* A directory with two controllers was added with snapshot and WMI
\* collection: one AD_SNAPSHOT prefix and two WMI prefixes.
C8_Witness ==
    \E i \in 1..Len(history) :
        /\ IsDirectory(i)
        /\ Len(DirectoryOf(i).domainControllers) = 2
        /\ Len(PrefixesOf(i, "AD_SNAPSHOT")) = 1
        /\ Len(PrefixesOf(i, "WMI")) = 2

\* The i-th call on the agent was addPostgres with an RDS database.
RdsCall(call) ==
    call.op = "addPostgres" /\ Databases(1)[call.args[1]].type = "rds"

\* C9 (as claimed): addPostgres with an RDS database whose engine is not
\* PostgreSQL raises an error and leaves the prefix counters, the link set,
\* the environment mapping and the fetch-command list as they were.
C9_EngineMismatchMutatesNothing ==
    [][(/\ history' # history
        /\ RdsCall(LastCall')
        /\ Databases(1)[LastCall'.args[1]].engine # None
        /\ ~includesPostgres(Databases(1)[LastCall'.args[1]].engine[1].engineType))
       => /\ LastCall'.threw # None
          /\ agent'.envPrefixCounts = agent.envPrefixCounts
          /\ agent'.peeredVpcIds = agent.peeredVpcIds
          /\ agent'.containerEnv = agent.containerEnv
          /\ agent'.fetchSecretsCommands = agent.fetchSecretsCommands]_vars

LastStackCall == stackHistory[Len(stackHistory)]

\* C10 (as claimed): addPostgres with an RDS database that owns no secret
\* raises an error and adds no variable to the environment mapping and no
\* command to the fetch-command list, on a SlashidAgent and on a
\* SlashidAgentStack.
C10_MissingSecretFails ==
    /\ [][(/\ history' # history
           /\ RdsCall(LastCall')
           /\ includesPostgres(Databases(1)[LastCall'.args[1]].engine[1].engineType)
           /\ Databases(1)[LastCall'.args[1]].secret = None)
          => /\ LastCall'.threw # None
             /\ agent'.containerEnv = agent.containerEnv
             /\ agent'.fetchSecretsCommands = agent.fetchSecretsCommands]_vars
    /\ [][(/\ stackHistory' # stackHistory
           /\ StackDatabases[LastStackCall'.args[1]].type = "rds"
           /\ StackDatabases[LastStackCall'.args[1]].secret = None)
          => /\ LastStackCall'.threw # None
             /\ slashidAgentStack'.containerEnv = slashidAgentStack.containerEnv
             /\ slashidAgentStack'.fetchSecretsScript
                   = slashidAgentStack.fetchSecretsScript]_vars

\* C11 (as claimed): an addPostgres call on an RDS database that raises
\* leaves the link set and the created peering connections and routes as
\* they were before the call.
C11_FailedCallLeavesNoLink ==
    [][(/\ history' # history
        /\ RdsCall(LastCall')
        /\ LastCall'.threw # None)
       => LinkState(agent') = LinkState(agent)]_vars

\* The suffixes of the variable names addPostgres and setUploadConfig write
\* under a prefix.
PsqlSuffixes ==
    {"HOST", "PORT", "DBNAME", "USERNAME", "PASSWORD", "USE_SSL",
     "FETCH_PASSWORDS", "SLASHID_AUTH_TOKEN", "UPLOAD_URL", "UPLOAD_INTERVAL",
     "MAX_CONSECUTIVE_FAILURES", "MAX_BACKOFF_INTERVAL", "OUTPUT_DIR"}

\* The ordinal n of an allocated prefix <kind>_n_.
Ordinal(alloc) ==
    CHOOSE n \in 1..(Len(agent.allocated) + 1) :
        alloc.ret = alloc.kind \o "_" \o ToString(n) \o "_"

\* C12: when an addPostgres call raised after its prefix was allocated,
\* every later addPostgres call gets a strictly larger ordinal and no
\* variable named under the failed call's prefix is in the environment
\* mapping.
C12_OrdinalNeverReused ==
    \A i \in 1..Len(history) :
        (IsPostgres(i) /\ history[i].threw # None /\ history[i].prefixes # <<>>) =>
            /\ \A j \in (i + 1)..Len(history) :
                  IsPostgres(j) =>
                      Ordinal(history[j].prefixes[1]) > Ordinal(history[i].prefixes[1])
            /\ \A s \in PsqlSuffixes :
                  ~EnvHas(agent.containerEnv, history[i].prefixes[1].ret \o s)

\* A first addPostgres call failed for a missing secret and a second one
\* completed under PSQL_2_.
C12_Witness ==
    /\ Len(history) >= 2
    /\ IsPostgres(1) /\ history[1].threw # None
    /\ history[1].prefixes[1].ret = "PSQL_1_"
    /\ Databases(1)[history[1].args[1]].secret = None
    /\ IsPostgres(2) /\ history[2].threw = None
    /\ history[2].prefixes[1].ret = "PSQL_2_"
    /\ EnvHas(agent.containerEnv, "PSQL_2_HOST")
    /\ ~EnvHas(agent.containerEnv, "PSQL_1_HOST")

\* C13: no two prefix allocations of one agent instance, of the same kind
\* or of different kinds, returned the same prefix string.
C13_PrefixesDistinct ==
    \A i, j \in 1..Len(agent.allocated) :
        agent.allocated[i].ret = agent.allocated[j].ret => i = j

\* Prefixes of all three kinds were allocated, two of them of kind PSQL and
\* two of kind WMI.
C13_Witness ==
    /\ \E i, j \in 1..Len(agent.allocated) :
          i # j /\ agent.allocated[i].kind = "PSQL" /\ agent.allocated[j].kind = "PSQL"
    /\ \E i, j \in 1..Len(agent.allocated) :
          i # j /\ agent.allocated[i].kind = "WMI" /\ agent.allocated[j].kind = "WMI"
    /\ \E i \in 1..Len(agent.allocated) : agent.allocated[i].kind = "AD_SNAPSHOT"

\* C14: no addEnv call (the constructor's included) wrote a name that an
\* earlier call had written, so every write added a new entry to the
\* environment mapping, and the fetch commands write pairwise different
\* variable names.
C14_NamesUnique ==
    LET calls == SecretCalls(agent)
    IN  /\ Cardinality({agent.trace[i].name : i \in 1..Len(agent.trace)})
              = Len(agent.trace)
        /\ Len(agent.containerEnv) = Len(agent.trace)
        /\ Cardinality({calls[k].name : k \in 1..Len(calls)})
              = Len(agent.fetchSecretsCommands)

\* Two addPostgres calls and one addActiveDirectory call completed and at
\* least two fetch commands exist.
C14_Witness ==
    /\ Len(history) >= 3
    /\ \E i, j, k \in 1..Len(history) :
          /\ i # j /\ IsPostgres(i) /\ IsPostgres(j) /\ IsDirectory(k)
          /\ history[i].threw = None /\ history[j].threw = None
          /\ history[k].threw = None /\ history[k].prefixes # <<>>
    /\ Len(agent.fetchSecretsCommands) >= 2

\* The upload/reporting variables setUploadConfig may write under a prefix.
UploadSuffixes ==
    {"UPLOAD_URL", "UPLOAD_INTERVAL", "MAX_CONSECUTIVE_FAILURES",
     "MAX_BACKOFF_INTERVAL"}

\* C15 (as claimed): after a completed addPostgres call, or a completed
\* addActiveDirectory call with a snapshot connection, each of UPLOAD_URL,
\* UPLOAD_INTERVAL, MAX_CONSECUTIVE_FAILURES and MAX_BACKOFF_INTERVAL is
\* present in the environment mapping under the connection's prefix, also
\* when the caller omitted the parameter.
C15_UploadDefaultsPresent ==
    \A i \in 1..Len(history) :
        (/\ history[i].threw = None
         /\ history[i].prefixes # <<>>
         /\ history[i].prefixes[1].kind \in {"PSQL", "AD_SNAPSHOT"}) =>
            \A s \in UploadSuffixes :
                EnvHas(agent.containerEnv, history[i].prefixes[1].ret \o s)

\* The UploadConfig the i-th call passed to setUploadConfig.
UploadConfigOf(i) ==
    IF IsPostgres(i) THEN PostgresConfigs(1)[history[i].args[2]]
    ELSE DirectoryConfigOf(i).snapshot[1]

\* The value of variable `name` in the agent's environment mapping.
EnvValue(name) == agent.containerEnv[EnvGet(agent.containerEnv, name)].value

\* Variable `name` holds the decimal string of the optional number `opt`
\* when the caller gave it, and is absent otherwise.
PresentIffGiven(name, opt) ==
    IF opt = None THEN ~EnvHas(agent.containerEnv, name)
    ELSE EnvHas(agent.containerEnv, name) /\ EnvValue(name) = ToString(opt[1])

\* C15 (amended): after a completed addPostgres or snapshot connection,
\* UPLOAD_URL is present under the connection's prefix and holds the
\* caller's URL or, when omitted, DEFAULT_UPLOAD_URL; UPLOAD_INTERVAL,
\* MAX_CONSECUTIVE_FAILURES and MAX_BACKOFF_INTERVAL are present (as the
\* decimal string of the caller's number) exactly when the caller gave
\* them, and absent otherwise.
C15_UploadUrlDefaultOnly ==
    \A i \in 1..Len(history) :
        (/\ history[i].threw = None
         /\ history[i].prefixes # <<>>
         /\ history[i].prefixes[1].kind \in {"PSQL", "AD_SNAPSHOT"}) =>
            LET cfg == UploadConfigOf(i)
                pre == history[i].prefixes[1].ret
            IN  /\ EnvHas(agent.containerEnv, pre \o "UPLOAD_URL")
                /\ EnvValue(pre \o "UPLOAD_URL")
                      = (IF cfg.upload_url = None THEN DEFAULT_UPLOAD_URL
                         ELSE cfg.upload_url[1])
                /\ PresentIffGiven(pre \o "UPLOAD_INTERVAL", cfg.upload_interval)
                /\ PresentIffGiven(pre \o "MAX_CONSECUTIVE_FAILURES",
                                   cfg.max_consecutive_failures)
                /\ PresentIffGiven(pre \o "MAX_BACKOFF_INTERVAL",
                                   cfg.max_backoff_interval)

\* A database connection that omitted every upload parameter, one that gave
\* them all, and a snapshot connection that gave only the interval have
\* completed.
C15_Witness ==
    /\ \E i \in 1..Len(history) :
          /\ IsPostgres(i) /\ history[i].threw = None
          /\ UploadConfigOf(i).upload_url = None
          /\ UploadConfigOf(i).upload_interval = None
    /\ \E i \in 1..Len(history) :
          /\ IsPostgres(i) /\ history[i].threw = None
          /\ UploadConfigOf(i).upload_url # None
          /\ UploadConfigOf(i).max_backoff_interval # None
    /\ \E i \in 1..Len(history) :
          /\ IsDirectory(i) /\ history[i].threw = None
          /\ history[i].prefixes # <<>>
          /\ history[i].prefixes[1].kind = "AD_SNAPSHOT"

\* The five connection variables of a database connection.
ConnectionSuffixes == {"HOST", "PORT", "DBNAME", "USERNAME", "PASSWORD"}

\* The value the addEnv call that wrote `name` was given.
TraceValue(name) ==
    agent.trace[CHOOSE i \in 1..Len(agent.trace) : agent.trace[i].name = name].value

\* The i-th call was a completed addPostgres on an RDS database (which
\* therefore owns a secret).
ManagedCall(i) == RdsCall(history[i]) /\ history[i].threw = None

\* C16 (as claimed): a completed addPostgres call on a managed database adds
\* HOST, PORT, DBNAME, USERNAME and PASSWORD under its prefix, exactly four
\* of them given as secret references, and only HOST or PORT as a literal.
C16_FourBehindPlaceholders ==
    \A i \in 1..Len(history) :
        ManagedCall(i) =>
            LET pre == history[i].prefixes[1].ret
            IN  /\ \A s \in ConnectionSuffixes : EnvHas(agent.containerEnv, pre \o s)
                /\ Cardinality({s \in ConnectionSuffixes :
                                   TraceValue(pre \o s).type # "string"}) = 4
                /\ \A s \in ConnectionSuffixes :
                      TraceValue(pre \o s).type = "string" => s \in {"HOST", "PORT"}

\* C16 (amended): a completed addPostgres call on a managed database adds
\* the five connection variables under one prefix: HOST and PORT are the
\* literal host name and port of the resource's endpoint (the cluster
\* endpoint when there is one, the instance endpoint otherwise), and DBNAME,
\* USERNAME and PASSWORD are the placeholders of the fields dbname, username
\* and password of the owned secret, each with its fetch command.
C16_ThreeBehindPlaceholders ==
    \A i \in 1..Len(history) :
        ManagedCall(i) =>
            LET pre == history[i].prefixes[1].ret
                db  == Databases(1)[history[i].args[1]]
                ep  == IF db.clusterEndpoint # None THEN db.clusterEndpoint[1]
                       ELSE db.instanceEndpoint[1]
                sec == db.secret[1]
                behind(s, f) ==
                    /\ EnvHas(agent.containerEnv, pre \o s)
                    /\ EnvValue(pre \o s) = "secret(" \o sec.secretName \o ")." \o f
                    /\ FetchCommand(pre \o s, SecretField(sec, f), agent.region)
                          \in Range(agent.fetchSecretsCommands)
            IN  /\ Len(history[i].prefixes) = 1
                /\ EnvHas(agent.containerEnv, pre \o "HOST")
                /\ EnvValue(pre \o "HOST") = ep.hostname
                /\ EnvHas(agent.containerEnv, pre \o "PORT")
                /\ EnvValue(pre \o "PORT") = ToString(ep.port)
                /\ behind("DBNAME", "dbname")
                /\ behind("USERNAME", "username")
                /\ behind("PASSWORD", "password")

\* An RDS instance and an Aurora cluster, each owning a secret, were both
\* added.
C16_Witness ==
    /\ \E i \in 1..Len(history) :
          ManagedCall(i) /\ Databases(1)[history[i].args[1]].clusterEndpoint = None
    /\ \E i \in 1..Len(history) :
          ManagedCall(i) /\ Databases(1)[history[i].args[1]].clusterEndpoint # None

IsPrefix(a, b) == Len(a) <= Len(b) /\ SubSeq(b, 1, Len(a)) = a

\* Contents the runtime secrets file may have before a run of the script.
StaleFiles == {<<>>, <<"STALE_1">>, <<"STALE_1", "STALE_2">>}

\* C18: every step keeps the fetch commands emitted so far as a prefix of
\* the fetch-command list; the start script has the truncation of the
\* runtime secrets file, then the fetch commands in the order they were
\* emitted, then the container start; and one run or two runs of the script,
\* from any earlier contents of the file, leave exactly one entry per fetch
\* command in it, in order.
C18_AppendOnlyTruncateFirst ==
    /\ [][IsPrefix(agent.fetchSecretsCommands, agent'.fetchSecretsCommands)]_vars
    /\ [](LET lines == startScriptLines(agent)
              cmds  == agent.fetchSecretsCommands
              n     == Len(cmds)
          IN  /\ \E t \in 1..Len(lines) :
                    /\ lines[t] = "> /run/slashid-agent-secrets.env"
                    /\ \A u \in 1..(t - 1) :
                          lines[u] \notin Range(cmds)
                             \cup {"docker compose up -d --pull always"}
                    /\ SubSeq(lines, t + 1, t + n) = cmds
                    /\ Len(lines) > t + n
                    /\ lines[t + n + 1] = "docker compose up -d --pull always"
              /\ \A file \in StaleFiles :
                    /\ runStartScript(agent, lines, file) = cmds
                    /\ runStartScript(agent, lines,
                                      runStartScript(agent, lines, file)) = cmds)

\* Two calls each emitted fetch commands: an addPostgres on a managed
\* database, then an addActiveDirectory with a snapshot connection.
C18_Witness ==
    /\ Len(history) >= 2
    /\ ManagedCall(1)
    /\ IsDirectory(2) /\ history[2].threw = None
    /\ history[2].prefixes # <<>> /\ history[2].prefixes[1].kind = "AD_SNAPSHOT"
    /\ Len(agent.fetchSecretsCommands) >= 5
    /\ runStartScript(agent, startScriptLines(agent), <<"STALE_1">>)
          = agent.fetchSecretsCommands

\* The ids of the peering connections an instance created.
PeeringIds(this) == {this.peerings[i].id : i \in 1..Len(this.peerings)}

\* C19 (as claimed): the peering connections one instance created have
\* pairwise different construct ids, and a call that asks for a link to a
\* foreign VPC that is not yet linked completes the link: it does not fail
\* on the resources of an earlier link, and every VPC in the link set has
\* its peering connection.  Stated for a SlashidAgent (linkVpc and RDS
\* addPostgres) and for a SlashidAgentStack (RDS addPostgres).
C19_LinkIdsDistinct ==
    /\ [](/\ Cardinality(PeeringIds(agent)) = Len(agent.peerings)
          /\ Cardinality(agent.peeredVpcIds) = Len(agent.peerings))
    /\ [][(/\ history' # history
           /\ LastCall'.op = "linkVpc"
           /\ TargetVpc(LastCall').vpcId
                 \notin agent.peeredVpcIds \cup {agent.vpc.vpcId})
          => /\ LastCall'.threw = None
             /\ Len(agent'.peerings) = Len(agent.peerings) + 1]_vars
    /\ [](/\ Cardinality(PeeringIds(slashidAgentStack))
                = Len(slashidAgentStack.peerings)
          /\ Cardinality(slashidAgentStack.peeredVpcIds)
                = Len(slashidAgentStack.peerings))
    /\ [][(/\ stackHistory' # stackHistory
           /\ StackDatabases[LastStackCall'.args[1]].type = "rds"
           /\ StackDatabases[LastStackCall'.args[1]].vpc.vpcId
                 \notin slashidAgentStack.peeredVpcIds
                           \cup {slashidAgentStack.vpc.vpcId})
          => /\ LastStackCall'.threw = None
             /\ Len(slashidAgentStack'.peerings)
                   = Len(slashidAgentStack.peerings) + 1]_vars

\* C20: an addActiveDirectory call (managed or custom directory) and an
\* addPostgres call with a literal PostgresDatabaseInfo leave peeredVpcIds
\* and the created peering connections and routes unchanged, whether they
\* return or throw.
C20_OnlyLinkCallsChangeLinks ==
    [][(history' # history /\ ~RequestsLink(LastCall'))
       => LinkState(agent') = LinkState(agent)]_vars

\* After a link to vpc-b was created, an addActiveDirectory call on the
\* managed directory and an addPostgres call with a literal descriptor
\* completed, and the link state is still that one link.
C20_Witness ==
    /\ Len(history) >= 3
    /\ IsLink(1) /\ TargetVpc(history[1]).vpcId = "vpc-b"
    /\ \E i, j \in 2..Len(history) :
          /\ IsDirectory(i) /\ Directories[history[i].args[1]].type = "CfnMicrosoftAD"
          /\ history[i].threw = None /\ history[i].prefixes # <<>>
          /\ IsPostgres(j) /\ Databases(1)[history[j].args[1]].type = "info"
          /\ history[j].threw = None
    /\ Len(agent.peerings) = 1
    /\ agent.peeredVpcIds = {"vpc-b"}

\* The line of the environment file for the value an addEnv call was given.
ExpectedEnvLine(e) ==
    e.name \o "=" \o (IF e.value.type = "string" THEN e.value.string
                      ELSE Placeholder(e.value))

Configuration(this) ==
    <<this.containerEnv, this.fetchSecretsCommands, LinkState(this)>>

RenderedCommands(a) == SubSeq(a.startScript, 5, Len(a.startScript) - 2)

RoutesOf(this, peering) ==
    SelectSeq(this.routes, LAMBDA r : r.vpcPeeringConnectionId = peering.id)

\* The VPC with id `vpcId`.
VpcOf(vpcId) == Vpcs[CHOOSE v \in 1..Len(Vpcs) : Vpcs[v].vpcId = vpcId]

\* C23: for every peering connection created, the route table of every
\* public and every private subnet of the source VPC has a route to the
\* target VPC's CIDR through that peering connection, the routes of the
\* link go nowhere else, and no route table has two routes of the link
\* (two subnets that share a route table get one route).
C23_OneRoutePerRouteTable ==
    \A p \in 1..Len(agent.peerings) :
        LET peering == agent.peerings[p]
            routes  == RoutesOf(agent, peering)
            tables  == Range(agent.vpc.publicSubnets)
                          \cup Range(agent.vpc.privateSubnets)
        IN  /\ {routes[i].routeTableId : i \in 1..Len(routes)} = tables
            /\ Len(routes) = Cardinality(tables)
            /\ \A i \in 1..Len(routes) :
                  routes[i].destinationCidrBlock
                     = VpcOf(peering.peerVpcId).vpcCidrBlock

\* Two links were created from a source VPC in which two public subnets
\* share one route table: each link has three routes for four subnets.
C23_Witness ==
    /\ Len(agent.peerings) = 2
    /\ Len(agent.vpc.publicSubnets) + Len(agent.vpc.privateSubnets) = 4
    /\ Len(agent.routes) = 6

\* C24: in every reachable state the instance has as many peering
\* connections as peeredVpcIds has elements and peeredVpcIds is exactly the
\* set of the peers of those connections; and every step keeps every
\* element of peeredVpcIds and every peering connection and route created
\* so far.
C24_LinkSetMatchesLinks ==
    /\ [](/\ Len(agent.peerings) = Cardinality(agent.peeredVpcIds)
          /\ agent.peeredVpcIds
                = {agent.peerings[i].peerVpcId : i \in 1..Len(agent.peerings)})
    /\ [][/\ agent.peeredVpcIds \subseteq agent'.peeredVpcIds
          /\ IsPrefix(agent.peerings, agent'.peerings)
          /\ IsPrefix(agent.routes, agent'.routes)]_vars

\* Three link requests, two for vpc-b and one for vpc-c, one of which came
\* from an addPostgres call that then failed: two links, two ids.
C24_Witness ==
    /\ Len(history) = 3
    /\ \A i \in 1..3 : RequestsLink(history[i])
    /\ \E i \in 1..3 : history[i].threw # None
    /\ agent.peeredVpcIds = {"vpc-b", "vpc-c"}
    /\ Len(agent.peerings) = 2


\* The addEnv calls made by the step, in order.
NewWrites == SubSeq(agent'.trace, Len(agent.trace) + 1, Len(agent'.trace))

\* C25: a completed addPostgres call on an RDS database passes to addEnv,
\* under the prefix it allocated, HOST and PORT as the literal host name and
\* port of the cluster endpoint when the resource has one and of the
\* instance endpoint otherwise, DBNAME, USERNAME and PASSWORD as the fields
\* dbname, username and password of the secret the resource owns, and
\* USE_SSL as the literal true; each of the six is written once, and the
\* six values are the same whatever agent configuration the caller gave.
C25_DescriptorFromResource ==
    [][(/\ history' # history
        /\ RdsCall(LastCall')
        /\ LastCall'.threw = None)
       => LET pre == LastCall'.prefixes[1].ret
              db  == Databases(1)[LastCall'.args[1]]
              ep  == IF db.clusterEndpoint # None THEN db.clusterEndpoint[1]
                     ELSE db.instanceEndpoint[1]
              sec == db.secret[1]
              descriptor ==
                  SelectSeq(NewWrites,
                      LAMBDA e : e.name \in {pre \o s : s \in ConnectionSuffixes
                                                              \cup {"USE_SSL"}})
          IN  descriptor =
                  << [name |-> pre \o "HOST", value |-> Str(ep.hostname)],
                     [name |-> pre \o "PORT", value |-> Str(ToString(ep.port))],
                     [name |-> pre \o "DBNAME", value |-> SecretField(sec, "dbname")],
                     [name |-> pre \o "USERNAME", value |-> SecretField(sec, "username")],
                     [name |-> pre \o "PASSWORD", value |-> SecretField(sec, "password")],
                     [name |-> pre \o "USE_SSL", value |-> Str("true")] >>]_vars

\* The Aurora cluster, which has a cluster and an instance endpoint, was
\* added last, after the RDS instance was added with another configuration.
C25_Witness ==
    /\ Len(history) >= 2
    /\ ManagedCall(Len(history))
    /\ Databases(1)[LastCall.args[1]].clusterEndpoint # None
    /\ EnvHas(agent.containerEnv, LastCall.prefixes[1].ret \o "USE_SSL")
    /\ EnvValue(LastCall.prefixes[1].ret \o "HOST") = "db2.cluster.local"
    /\ \E i \in 1..(Len(history) - 1) :
          ManagedCall(i) /\ history[i].args[2] # LastCall.args[2]


\* The upload parameters setUploadConfig writes beside the token.
UploadParameters ==
    {"UPLOAD_URL", "UPLOAD_INTERVAL", "MAX_CONSECUTIVE_FAILURES",
     "MAX_BACKOFF_INTERVAL", "OUTPUT_DIR"}

\* The fetch commands the step appended.
NewCommands ==
    SubSeq(agent'.fetchSecretsCommands, Len(agent.fetchSecretsCommands) + 1,
           Len(agent'.fetchSecretsCommands))

\* C26: in every call, under every prefix the call allocated, each of
\* UPLOAD_URL, UPLOAD_INTERVAL, MAX_CONSECUTIVE_FAILURES,
\* MAX_BACKOFF_INTERVAL and OUTPUT_DIR that is written is given to addEnv as
\* a literal and no fetch command for it is appended; and the fetch commands
\* appended for the variables of one setUploadConfig call (the token and the
\* five parameters under one prefix) are none when the token is a literal
\* and exactly the token's fetch command, once, when it is a secret
\* reference.
C26_UploadParametersLiteral ==
    [][history' # history =>
         LET writes   == NewWrites
             commands == NewCommands
             secrets  == {writes[i].value : i \in {j \in 1..Len(writes) :
                                                      writes[j].value.type # "string"}}
         IN
         \A a \in Range(LastCall'.prefixes) :
            LET pre    == a.ret
                params == {pre \o s : s \in UploadParameters}
                token  == pre \o "SLASHID_AUTH_TOKEN"
                tokens == SelectSeq(writes, LAMBDA e : e.name = token)
                forParams == {FetchCommand(n, v, agent.region) :
                                 n \in params, v \in secrets}
                forToken  == {FetchCommand(token, v, agent.region) : v \in secrets}
                mine   == SelectSeq(commands,
                              LAMBDA c : c \in forParams \cup forToken)
            IN  /\ \A i \in 1..Len(writes) :
                      writes[i].name \in params => writes[i].value.type = "string"
                /\ Range(commands) \cap forParams = {}
                /\ Len(tokens) <= 1
                /\ Len(mine) <= 1
                /\ mine = IF tokens # <<>> /\ tokens[1].value.type # "string"
                          THEN << FetchCommand(token, tokens[1].value, agent.region) >>
                          ELSE <<>>]_vars

\* A completed call wrote all five upload parameters and a token that is a
\* secret reference under one prefix, and a later call wrote a literal
\* token.
C26_Witness ==
    /\ Len(history) >= 2
    /\ \E i \in 1..(Len(history) - 1) :
          /\ history[i].threw = None
          /\ history[i].prefixes # <<>>
          /\ \A s \in UploadParameters :
                EnvHas(agent.containerEnv, history[i].prefixes[1].ret \o s)
          /\ TraceValue(history[i].prefixes[1].ret \o "SLASHID_AUTH_TOKEN").type = "secret"
    /\ LastCall.threw = None
    /\ LastCall.prefixes # <<>>
    /\ EnvHas(agent.containerEnv, LastCall.prefixes[1].ret \o "SLASHID_AUTH_TOKEN")
    /\ TraceValue(LastCall.prefixes[1].ret \o "SLASHID_AUTH_TOKEN").type = "string"


\* C27: the fetch commands are pairwise different and are exactly the fetch
\* commands of the secret references the instance resolved, each written
\* under a different variable name; each of those names is a key of the
\* environment mapping holding the placeholder of the same secret (and
\* field); there are as many fetch commands as keys holding a placeholder;
\* and a key that holds no placeholder is the name of no fetch command.
C27_CommandsMatchPlaceholders ==
    LET calls    == SecretCalls(agent)
        env      == agent.containerEnv
        commands == agent.fetchSecretsCommands
        names    == {calls[k].name : k \in 1..Len(calls)}
        held     == {i \in 1..Len(env) :
                        env[i].value \in {Placeholder(calls[k].value) :
                                             k \in 1..Len(calls)}}
    IN  /\ Range(commands)
              = {FetchCommand(calls[k].name, calls[k].value, agent.region) :
                    k \in 1..Len(calls)}
        /\ Cardinality(Range(commands)) = Len(commands)
        /\ Cardinality(names) = Len(commands)
        /\ \A k \in 1..Len(calls) :
              /\ EnvHas(env, calls[k].name)
              /\ EnvValue(calls[k].name) = Placeholder(calls[k].value)
        /\ Cardinality(held) = Len(commands)
        /\ \A i \in 1..Len(env) : i \notin held => env[i].name \notin names

\* The environment mapping holds placeholders of field references and of a
\* whole-secret reference beside literal values, after three calls.
C27_Witness ==
    LET calls == SecretCalls(agent)
    IN  /\ Len(history) = 3
        /\ Len(agent.fetchSecretsCommands) >= 5
        /\ \E k \in 1..Len(calls) :
              /\ calls[k].value.type = "secret"
              /\ EnvValue(calls[k].name) = Placeholder(calls[k].value)
        /\ \E k \in 1..Len(calls) :
              /\ calls[k].value.type = "field"
              /\ EnvValue(calls[k].name) = Placeholder(calls[k].value)
        /\ Len(agent.containerEnv) > Len(calls) + 3


----------------------------------------------------------------------------
(* Boot of the instance: the start script and docker compose               *)

\* The env_file list with the runtime secrets file first.
composeEnvFilesRuntimeFirst == <<"/run/slashid-agent-secrets.env", "slashid-agent.env">>

\* slashid-agent.ts:118: env_file of the compose service, in list order
composeEnvFiles == <<"slashid-agent.env", "/run/slashid-agent-secrets.env">>

\* slashid-agent-stack.ts:118: env_file of the compose service
stackComposeEnvFiles == <<"docker.env", "/run/secrets.env">>

\* `jq -r .field` applied to the JSON text of a secret: the value of the
\* field in those contents.
jq(secretString, field) == "(" \o secretString \o ")." \o field

\* The entries of the files `files`, one file after the other.
RECURSIVE readEnvFiles(_, _)
readEnvFiles(files, contents) ==
    IF files = <<>> THEN <<>>
    ELSE contents[files[1]] \o readEnvFiles(Tail(files), contents)

\* The environment docker compose gives the container: the entries of the
\* env_file files read in list order, an entry replacing an earlier entry of
\* the same name.
composeEnvironment(files, contents) ==
    LET entries == readEnvFiles(files, contents)
        first   == SelectSeq([i \in 1..Len(entries) |-> i],
                       LAMBDA i : \A j \in 1..(i - 1) :
                                     entries[j].name # entries[i].name)
        last(name) == CHOOSE i \in 1..Len(entries) :
                         /\ entries[i].name = name
                         /\ \A j \in (i + 1)..Len(entries) : entries[j].name # name
    IN  [k \in 1..Len(first) |->
            [name  |-> entries[first[k]].name,
             value |-> entries[last(entries[first[k]].name)].value]]

\* The entry a line of the runtime secrets file holds.  A line appended by
\* a fetch command of slashid-agent.ts:222-229 holds the variable name of
\* the command and what its `$(aws secretsmanager get-secret-value ...)`
\* printed: the secret's text, or the named field of it through jq.
fetchedEntry(this, line) ==
    LET calls == SecretCalls(this)
        hits  == {k \in 1..Len(calls) :
                     FetchCommand(calls[k].name, calls[k].value, this.region) = line}
    IN  IF hits = {} THEN [name |-> line, value |-> ""]
        ELSE LET call == calls[CHOOSE k \in hits : TRUE]
             IN  [name  |-> call.name,
                  value |-> IF call.value.type = "field"
                            THEN jq(call.value.secret.secretString, call.value.field)
                            ELSE call.value.secret.secretString]

\* The environment of the container after /opt/start-slashid-agent.sh
\* (slashid-agent.ts:134-145, run at :168 and :170) has run on a runtime
\* secrets file holding `stale`, with /opt/slashid-agent.env holding the
\* entries `static` (slashid-agent.ts:165) and every command succeeding.
containerEnvironment(this, static, script, stale) ==
    LET written == runStartScript(this, script, stale)
    IN  composeEnvironment(composeEnvFiles,
            [f \in Range(composeEnvFiles) |->
                IF f = "slashid-agent.env" THEN static
                ELSE [i \in 1..Len(written) |-> fetchedEntry(this, written[i])]])

\* The secrets the databases of StackDatabases own.
StackSecrets ==
    {StackDatabases[d].secret[1] :
        d \in {e \in 1..Len(StackDatabases) :
                  StackDatabases[e].type = "rds" /\ StackDatabases[e].secret # None}}

\* One run of /opt/fetch_secrets.sh (slashid-agent-stack.ts:59-62, 219-226)
\* with every command succeeding.  `sh` holds the runtime secrets file and
\* the shell variable SECRET: `> file` empties the file, `SECRET=$(...)`
\* reads a secret's text, and an echo line appends one entry with the field
\* jq takes from $SECRET.
RECURSIVE stackRunFetchSecrets(_, _, _)
stackRunFetchSecrets(this, lines, sh) ==
    IF lines = <<>> THEN sh
    ELSE
      LET l == lines[1]
          read == {s \in StackSecrets :
                     l = "SECRET=$(aws secretsmanager get-secret-value --secret-id "
                            \o s.secretArn
                            \o " --query SecretString --output text --region "
                            \o this.region \o ")"}
          echo == {x \in {<<this.allocated[i].ret, kf>> :
                             i \in 1..Len(this.allocated),
                             kf \in {<<"HOST", "host">>, <<"PORT", "port">>,
                                     <<"DBNAME", "dbname">>,
                                     <<"USERNAME", "username">>,
                                     <<"PASSWORD", "password">>}} :
                     l = "echo \"" \o x[1] \o x[2][1] \o "=$(echo $SECRET | jq -r ."
                            \o x[2][2] \o ")\" >> /run/secrets.env"}
      IN  stackRunFetchSecrets(this, Tail(lines),
            IF l = "> /run/secrets.env" THEN [sh EXCEPT !.file = <<>>]
            ELSE IF read # {}
                 THEN [sh EXCEPT !.SECRET = (CHOOSE s \in read : TRUE).secretString]
            ELSE IF echo # {}
                 THEN LET hit == CHOOSE y \in echo : TRUE
                      IN  [sh EXCEPT !.file = Append(@,
                              [name |-> hit[1] \o hit[2][1],
                               value |-> jq(sh.SECRET, hit[2][2])])]
            ELSE sh)

\* The environment of the container after /opt/start-container.sh
\* (slashid-agent-stack.ts:132-136: fetch_secrets.sh, then docker compose
\* up) has run on a runtime secrets file holding `stale`, with
\* /opt/docker.env holding containerEnv (:148).
stackContainerEnvironment(this, stale) ==
    LET sh == stackRunFetchSecrets(this, this.fetchSecretsScript,
                                   [file |-> stale, SECRET |-> ""])
    IN  composeEnvironment(stackComposeEnvFiles,
            [f \in Range(stackComposeEnvFiles) |->
                IF f = "docker.env" THEN this.containerEnv ELSE sh.file])

RenderStackCalls == {<<1, 1>>, <<2, 2>>, <<4, 1>>, <<5, 2>>}

\* The calls and the rendering of SpecRender on a SlashidAgent, or
\* addPostgres calls on a SlashidAgentStack.
NextBoot ==
    \/ /\ stackHistory = <<>>
       /\ Len(history) < MaxRenderCalls
       /\ \E x \in RenderPostgresCalls : AddPostgres(x[1], x[2], FALSE)
    \/ /\ stackHistory = <<>>
       /\ Len(history) < MaxRenderCalls
       /\ \E x \in RenderDirectoryCalls : AddActiveDirectory(x[1], x[2], FALSE)
    \/ /\ stackHistory = <<>>
       /\ Render
    \/ /\ history = <<>>
       /\ artifacts = <<>>
       /\ Len(stackHistory) < MaxRenderCalls
       /\ \E x \in RenderStackCalls : StackAddPostgres(x[1], x[2])

SpecBoot == Init /\ [][NextBoot]_vars

\* What a fetch of the secret reference `value` yields at boot.
Fetched(value) ==
    IF value.type = "field" THEN jq(value.secret.secretString, value.field)
    ELSE value.secret.secretString

\* The value of variable `name` in the environment `env`.
Seen(env, name) == env[EnvGet(env, name)].value

\* Earlier contents of the runtime secrets file of a SlashidAgentStack.
StackStaleFiles == {<<>>, <<[name |-> "PSQL_1_HOST", value |-> "stale"]>>}

\* The completed addPostgres calls on the SlashidAgentStack whose database
\* owns a secret.
StackManagedCalls ==
    {j \in 1..Len(stackHistory) :
        /\ stackHistory[j].threw = None
        /\ StackDatabases[stackHistory[j].args[1]].type = "rds"
        /\ StackDatabases[stackHistory[j].args[1]].secret # None}

\* C28: for every rendering of a SlashidAgent and every earlier contents of
\* the runtime secrets file, the container started by the rendered start
\* script from the rendered environment file sees exactly the variables of
\* the environment file; a variable given as a secret reference has the
\* fetched value (the secret's text, or the named field of it) and not the
\* placeholder the environment file holds for it, and a variable given as a
\* literal has the value of the environment file.  The same holds of a
\* SlashidAgentStack: HOST, PORT, DBNAME, USERNAME and PASSWORD of a
\* database that owns a secret have the fields host, port, dbname, username
\* and password of the secret, and every other variable has the value of
\* docker.env.
C28_SecretsOverrideStatic ==
    /\ \A n \in 1..Len(artifacts) : \A stale \in StaleFiles :
          LET a      == artifacts[n]
              static == SubSeq(agent.containerEnv, 1, Len(a.envFile))
              seen   == containerEnvironment(agent, static, a.startScript, stale)
          IN  /\ envLines(static) = a.envFile
              /\ Len(seen) = Len(static)
              /\ \A i \in 1..Len(static) :
                    LET name  == static[i].name
                        given == TraceValue(name)
                    IN  /\ EnvHas(seen, name)
                        /\ IF given.type = "string"
                           THEN /\ Seen(seen, name) = static[i].value
                                /\ static[i].value = given.string
                           ELSE /\ Seen(seen, name) = Fetched(given)
                                /\ static[i].value = Placeholder(given)
                                /\ Seen(seen, name) # static[i].value
    /\ \A stale \in StackStaleFiles :
          LET static == slashidAgentStack.containerEnv
              seen   == stackContainerEnvironment(slashidAgentStack, stale)
              backed == {<<stackHistory[j].prefixes[1].ret \o kf[1],
                           StackDatabases[stackHistory[j].args[1]].secret[1], kf[2]>> :
                            j \in StackManagedCalls,
                            kf \in {<<"HOST", "host">>, <<"PORT", "port">>,
                                    <<"DBNAME", "dbname">>,
                                    <<"USERNAME", "username">>,
                                    <<"PASSWORD", "password">>}}
          IN  /\ Len(seen) = Len(static)
              /\ \A b \in backed :
                    /\ EnvHas(static, b[1])
                    /\ EnvHas(seen, b[1])
                    /\ Seen(seen, b[1]) = jq(b[2].secretString, b[3])
                    /\ Seen(static, b[1]) \in {SECRET_PLACEHOLDER, "0"}
              /\ \A i \in 1..Len(static) :
                    static[i].name \notin {b[1] : b \in backed}
                        => /\ EnvHas(seen, static[i].name)
                           /\ Seen(seen, static[i].name) = static[i].value

\* A rendering made after addPostgres on the RDS instance with a token that
\* is a whole-secret reference: booted over a stale runtime file, the
\* container sees the endpoint's host name, the password field of the
\* database's secret and the text of the token's secret.
C28_Witness ==
    /\ Len(artifacts) >= 1
    /\ Len(history) >= 1
    /\ history[1].args = <<1, 2>>
    /\ LET a      == artifacts[Len(artifacts)]
           static == SubSeq(agent.containerEnv, 1, Len(a.envFile))
           seen   == containerEnvironment(agent, static, a.startScript, <<"STALE_1">>)
       IN  /\ a.calls >= 1
           /\ EnvHas(seen, "PSQL_1_PASSWORD")
           /\ Seen(seen, "PSQL_1_HOST") = "db1.rds.local"
           /\ Seen(seen, "PSQL_1_PASSWORD")
                 = jq(Databases(1)[1].secret[1].secretString, "password")
           /\ Seen(seen, "PSQL_1_SLASHID_AUTH_TOKEN")
                 = PostgresConfigs(1)[2].slashid_auth_token.secret.secretString
           /\ Seen(static, "PSQL_1_PASSWORD")
                 = Placeholder(TraceValue("PSQL_1_PASSWORD"))


\* The first sixteen bits and the prefix length of the CIDR blocks of Vpcs.
CidrOf(block) ==
    CASE block = "10.0.0.0/16" -> [bits |-> 10 * 256 + 0, len |-> 16]
      [] block = "10.1.0.0/16" -> [bits |-> 10 * 256 + 1, len |-> 16]
      [] block = "10.2.0.0/16" -> [bits |-> 10 * 256 + 2, len |-> 16]

\* Every address of `block` is an address of `range`.
CidrContains(range, block) ==
    LET r == CidrOf(range)
        b == CidrOf(block)
    IN  /\ r.len <= b.len
        /\ r.bits \div 2^(16 - r.len) = b.bits \div 2^(16 - r.len)

\* C29 (as claimed): a completed addPostgres call with an RDS database
\* leaves an ingress rule of that database, on the port of its endpoint,
\* whose peer is the agent's security group or an address range that
\* contains the CIDR block of the agent's VPC.
C29_IngressAdmitsAgent ==
    [][(/\ history' # history
        /\ RdsCall(LastCall')
        /\ LastCall'.threw = None)
       => LET db == Databases(1)[LastCall'.args[1]]
              ep == IF db.clusterEndpoint # None THEN db.clusterEndpoint[1]
                    ELSE db.instanceEndpoint[1]
          IN  \E rule \in agent'.ingress :
                 /\ rule.db = db.id
                 /\ rule.port = ep.port
                 /\ \/ rule.peer = [securityGroup |-> agent.securityGroup]
                    \/ /\ DOMAIN rule.peer = {"ipv4"}
                       /\ CidrContains(rule.peer.ipv4, agent.vpc.vpcCidrBlock)]_vars


\* The counter of prefix kind `kind`.
Counter(this, kind) ==
    IF kind \in DOMAIN this.envPrefixCounts THEN this.envPrefixCounts[kind] ELSE 0

\* C30: an addActiveDirectory call with neither snapshot nor wmi requested
\* returns and leaves the whole instance state as it was; a call with only
\* wmi requested on a directory with no controller returns, allocates no
\* prefix and leaves the prefix counters, the environment mapping and the
\* fetch commands as they were; and every addActiveDirectory call, whether
\* it returns or throws, leaves the PSQL counter as it was and keeps the
\* environment mapping and the fetch-command list it found as a prefix of
\* the new ones.
C30_DirectoryFrame ==
    [][(/\ history' # history
        /\ LastCall'.op = "addActiveDirectory")
       => LET cfg == DirectoryConfigs(1)[LastCall'.args[2]]
              dir == toActiveDirectoryInfo(Directories[LastCall'.args[1]])
          IN  /\ (cfg.snapshot = None /\ cfg.wmi = None)
                    => /\ LastCall'.threw = None
                       /\ agent' = agent
              /\ (cfg.snapshot = None /\ cfg.wmi # None
                     /\ dir.domainControllers = <<>>)
                    => /\ LastCall'.threw = None
                       /\ LastCall'.prefixes = <<>>
                       /\ agent'.envPrefixCounts = agent.envPrefixCounts
                       /\ agent'.containerEnv = agent.containerEnv
                       /\ agent'.fetchSecretsCommands = agent.fetchSecretsCommands
              /\ Counter(agent', "PSQL") = Counter(agent, "PSQL")
              /\ IsPrefix(agent.containerEnv, agent'.containerEnv)
              /\ IsPrefix(agent.fetchSecretsCommands, agent'.fetchSecretsCommands)]_vars

\* After a completed addPostgres call: an addActiveDirectory call that
\* requested nothing and one that requested only wmi on a directory without
\* controllers; the instance still has only the PSQL prefix.
C30_Witness ==
    /\ Len(history) = 3
    /\ IsPostgres(1) /\ history[1].threw = None
    /\ \E i, j \in 2..3 :
          /\ IsDirectory(i) /\ IsDirectory(j)
          /\ DirectoryConfigOf(i).snapshot = None /\ DirectoryConfigOf(i).wmi = None
          /\ DirectoryConfigOf(j).snapshot = None /\ DirectoryConfigOf(j).wmi # None
          /\ DirectoryOf(j).domainControllers = <<>>
    /\ DOMAIN agent.envPrefixCounts = {"PSQL"}
    /\ Counter(agent, "PSQL") = 1

=============================================================================
